---- MODULE Spec2Model ----
(***************************************************************************)
(* Model of the aztec-exchange matching engine: MatchingEngine             *)
(* (engine/src/matching_engine.cpp), OrderBook and EventLog                *)
(* (engine/src/order_book.cpp) and RiskChecker (engine/src/risk_checks.cpp)*)
(*                                                                         *)
(* Prices and quantities are counted in units of PRICE_SCALE (10^8 raw     *)
(* units), so that the risk limits fit 32-bit integers.  An Order* held by *)
(* a book is modelled by the id under which the engine's orders_ map       *)
(* stores the pointee.  The engine runs with an event log file (a path was *)
(* given); timestamps and client_order_id, which no step reads, are left   *)
(* out of the records.                                                     *)
(***************************************************************************)
EXTENDS Integers, Sequences, FiniteSets, TLC

\* ------------------------------------------------------------------------
\* Bounds of the model
\* ------------------------------------------------------------------------
MaxOrders == 3
MaxPrice == 2
MaxQty == 2
MaxRejects == 1
MaxCancels == 1
MaxRestarts == 1
MaxRecovers == 2
MaxSnapshots == 1
MaxLines == 3
MaxTrades == 4
MaxLimit == 5
MaxDepth == 3
MaxThreads == 2
MaxAppends == 2

\* ------------------------------------------------------------------------
\* Program constants (types.hpp, risk_checks.hpp)
\* ------------------------------------------------------------------------
PRICE_SCALE == 1
max_order_size == 1000
max_notional == 10000000
allowed_symbols == {"BTC-USD", "ETH-USD"}

\* ------------------------------------------------------------------------
\* Inputs
\* ------------------------------------------------------------------------
Accounts == {"a1", "a2"}

\* Limit orders without idempotency key on the first symbol: every combination.
LimitInputs ==
    [account_id : Accounts, symbol : {"BTC-USD"}, side : {"BUY", "SELL"},
     type : {"LIMIT"}, price : 1..MaxPrice, quantity : 1..MaxQty,
     idempotency_key : {""}]

\* Market orders (their price field is not read).
MarketInputs ==
    [account_id : Accounts, symbol : {"BTC-USD"}, side : {"BUY", "SELL"},
     type : {"MARKET"}, price : {0}, quantity : {MaxQty},
     idempotency_key : {""}]

\* Orders on the second symbol: a bid, an ask that crosses it and an ask
\* that does not.
OtherSymbolInputs ==
    [account_id : {"a1"}, symbol : {"ETH-USD"}, side : {"BUY"},
     type : {"LIMIT"}, price : {1}, quantity : {1}, idempotency_key : {""}]
    \cup
    [account_id : {"a2"}, symbol : {"ETH-USD"}, side : {"SELL"},
     type : {"LIMIT"}, price : 1..MaxPrice, quantity : {1}, idempotency_key : {""}]

\* Orders that carry an idempotency key.
KeyedInputs ==
    [account_id : {"a1"}, symbol : {"BTC-USD"}, side : {"BUY", "SELL"},
     type : {"LIMIT"}, price : {1}, quantity : {1},
     idempotency_key : {"k1"}]

\* Orders the risk checker refuses.
InvalidInputs ==
    [account_id : {"a1"}, symbol : {"BTC-USD"}, side : {"BUY"},
     type : {"LIMIT"}, price : {1}, quantity : {0},
     idempotency_key : {"", "k1"}]

OrderInputs ==
    LimitInputs \cup MarketInputs \cup OtherSymbolInputs \cup KeyedInputs
        \cup InvalidInputs

\* ------------------------------------------------------------------------
\* State
\* ------------------------------------------------------------------------
VARIABLES
    orders,             \* orders_ : id -> Order
    books,              \* books_ : symbol -> OrderBook
    trades,             \* trades_
    idempotency_keys,   \* idempotency_keys_
    next_order_id,      \* next_order_id_
    next_trade_id,      \* next_trade_id_
    stats,              \* stats_
    sequence,           \* event_log_.sequence_
    log,                \* the lines of the event log file
    pc,                 \* idle, or match: inside place_order, at the loop of match()
    raw,                \* place_order's raw: the id of the incoming order
    r,                  \* the result of the last call (PlaceOrderResult / CancelOrderResult)
    risk_in,            \* a RiskChecker on its own: the order under check, limits_
                        \* and the build's long double
    risk_out,           \* what its check_order returned
    restarts,           \* how often a new engine was started on the log file
    prior,              \* the memory of the engine before, when the last one was started
    recovers,           \* how often recover() was called on the engine
    snapshots,          \* the files of the snapshot directory: sequence -> Snapshot
    line,               \* main's line: the request line that is being handled
    cout,               \* the responses main has written to the output stream
    query,              \* the arguments of a call that reads the engine
    answer,             \* what that call returned
    thread,             \* the threads that call EventLog::append: position and calls made
    enabled_,           \* EventLog::enabled_
    mutex_,             \* EventLog::mutex_: the thread that holds it, or 0
    buffer,             \* what was written to file_ and not flushed yet
    file_               \* what was flushed to the file, as the threads see it

\* The state of an EventLog that threads append to.
append_vars == <<thread, enabled_, mutex_, buffer, file_>>

vars == <<orders, books, trades, idempotency_keys, next_order_id, next_trade_id,
          stats, sequence, log, pc, raw, r, risk_in, risk_out, restarts, prior,
          recovers, snapshots, line, cout, query, answer, append_vars>>

\* The state of the engine, and the state outside it.
engine_vars == <<orders, books, trades, idempotency_keys, next_order_id,
                 next_trade_id, stats, sequence, log, pc, raw, r>>

other_vars ==
    <<risk_in, risk_out, restarts, prior, recovers, snapshots, line, cout,
      query, answer, append_vars>>

\* ------------------------------------------------------------------------
\* Helpers
\* ------------------------------------------------------------------------
SetMax(S) == CHOOSE x \in S : \A y \in S : y <= x

SetMin(S) == CHOOSE x \in S : \A y \in S : x <= y

\* Min2 with the comparison turned round.
RECURSIVE SumSeq(_)
SumSeq(s) == IF s = <<>> THEN 0 ELSE s[1] + SumSeq(Tail(s))

Max2(a, b) == IF a >= b THEN a ELSE b

Min2(a, b) == IF a <= b THEN a ELSE b

RemoveAll(s, x) == SelectSeq(s, LAMBDA e : e # x)

\* ------------------------------------------------------------------------
\* RiskChecker
\* ------------------------------------------------------------------------
is_valid_symbol(symbol) == symbol \in allowed_symbols

check_order(order) ==
    IF order.quantity <= 0 THEN "INVALID_QUANTITY"
    ELSE IF order.type = "LIMIT" /\ order.price <= 0 THEN "INVALID_PRICE"
    ELSE IF ~is_valid_symbol(order.symbol) THEN "INVALID_SYMBOL"
    ELSE IF order.quantity > max_order_size THEN "MAX_ORDER_SIZE_EXCEEDED"
    ELSE IF order.type = "LIMIT"
            /\ order.price * order.quantity > max_notional * PRICE_SCALE
         THEN "MAX_NOTIONAL_EXCEEDED"
    ELSE "NONE"

\* ------------------------------------------------------------------------
\* RiskChecker on raw 64-bit values
\* ------------------------------------------------------------------------
\* check_order above computes on whole multiples of PRICE_SCALE, where the
\* long double arithmetic of the notional check is exact.  What follows is
\* check_order on raw int64_t values of any size: a natural number is the
\* sequence of its digits to the base 2^LimbBits, least significant first,
\* without leading zeros (0 is <<>>); an int64_t is a sign and a magnitude; a
\* long double is m * 2^e with at most mant binary digits in m.
LimbBits == 15

LimbBase == 2^LimbBits

RECURSIVE Limbs(_)
Limbs(n) == IF n = 0 THEN <<>> ELSE <<n % LimbBase>> \o Limbs(n \div LimbBase)

RECURSIVE Trim(_)
Trim(a) == IF a = <<>> THEN <<>>
           ELSE IF a[Len(a)] = 0 THEN Trim(SubSeq(a, 1, Len(a) - 1)) ELSE a

RECURSIVE AddC(_, _, _)
AddC(a, b, c) ==
    IF a = <<>> /\ b = <<>> THEN Limbs(c)
    ELSE LET s == (IF a = <<>> THEN 0 ELSE Head(a))
                  + (IF b = <<>> THEN 0 ELSE Head(b)) + c
         IN <<s % LimbBase>> \o AddC(IF a = <<>> THEN a ELSE Tail(a),
                                     IF b = <<>> THEN b ELSE Tail(b),
                                     s \div LimbBase)

BigAdd(a, b) == AddC(a, b, 0)

\* a * d + c for d, c < LimbBase
RECURSIVE MulSmall(_, _, _)
MulSmall(a, d, c) ==
    IF a = <<>> THEN Limbs(c)
    ELSE LET s == Head(a) * d + c
         IN Trim(<<s % LimbBase>> \o MulSmall(Tail(a), d, s \div LimbBase))

RECURSIVE BigMul(_, _)
BigMul(a, b) ==
    IF a = <<>> \/ b = <<>> THEN <<>>
    ELSE BigAdd(MulSmall(b, Head(a), 0), Trim(<<0>> \o BigMul(Tail(a), b)))

\* Quotient and remainder of a by d, for d <= LimbBase.
RECURSIVE DivSmall(_, _)
DivSmall(a, d) ==
    IF a = <<>> THEN [q |-> <<>>, rem |-> 0]
    ELSE LET hi == DivSmall(Tail(a), d)
             n == hi.rem * LimbBase + Head(a)
         IN [q |-> Trim(<<n \div d>> \o hi.q), rem |-> n % d]

\* a * 2^k
Shl(a, k) ==
    IF a = <<>> THEN <<>>
    ELSE [i \in 1..(k \div LimbBits) |-> 0] \o MulSmall(a, 2^(k % LimbBits), 0)

\* floor(a / 2^k), and whether a non-zero digit was dropped
Shr(a, k) ==
    LET w == k \div LimbBits
        low == SubSeq(a, 1, IF w < Len(a) THEN w ELSE Len(a))
        d == DivSmall(SubSeq(a, w + 1, Len(a)), 2^(k % LimbBits))
    IN [q |-> d.q, sticky |-> d.rem # 0 \/ \E i \in 1..Len(low) : low[i] # 0]

\* The number of binary digits of a.
BitLen(a) ==
    IF a = <<>> THEN 0
    ELSE (Len(a) - 1) * LimbBits
           + (CHOOSE n \in 1..LimbBits : 2^(n - 1) <= a[Len(a)] /\ a[Len(a)] < 2^n)

RECURSIVE BigLess(_, _)
BigLess(a, b) ==
    IF Len(a) # Len(b) THEN Len(a) < Len(b)
    ELSE IF a = <<>> THEN FALSE
    ELSE IF a[Len(a)] # b[Len(b)] THEN a[Len(a)] < b[Len(b)]
    ELSE BigLess(Trim(SubSeq(a, 1, Len(a) - 1)), Trim(SubSeq(b, 1, Len(b) - 1)))

\* The natural number a * 10^16 + b * 10^8 + c, for b, c < 10^8.
Dec(a, b, c) ==
    LET up(x) == MulSmall(MulSmall(x, 10000, 0), 10000, 0)
    IN BigAdd(up(BigAdd(up(Limbs(a)), Limbs(b))), Limbs(c))

\* int64_t values: a * 10^16 + b * 10^8 + c and its negative.
I64(a, b, c) == [neg |-> FALSE, mag |-> Dec(a, b, c)]

I64Neg(a, b, c) == [neg |-> TRUE, mag |-> Dec(a, b, c)]

\* x > 0 and x < y on int64_t
I64Positive(x) == ~x.neg /\ x.mag # <<>>

I64Less(x, y) ==
    IF x.neg # y.neg THEN x.neg
    ELSE IF x.neg THEN BigLess(y.mag, x.mag) ELSE BigLess(x.mag, y.mag)

\* The long double nearest to m * 2^e (and a little more, when sticky): at
\* most mant digits, ties to even.
Round(m, sticky, e, mant) ==
    IF BitLen(m) <= mant THEN [m |-> m, e |-> e]
    ELSE LET sh == BitLen(m) - mant
             y == Shr(m, sh - 1)
             half == DivSmall(y.q, 2)
             rest == y.sticky \/ sticky
             odd == half.q # <<>> /\ Head(half.q) % 2 = 1
             up == half.rem = 1 /\ (rest \/ odd)
         IN [m |-> IF up THEN BigAdd(half.q, <<1>>) ELSE half.q, e |-> e + sh]

\* static_cast<long double> of a positive int64_t
ToLongDouble(a, mant) == Round(a, FALSE, 0, mant)

\* x * y in long double
FMul(x, y, mant) == Round(BigMul(x.m, y.m), FALSE, x.e + y.e, mant)

\* x / PRICE_SCALE in long double (PRICE_SCALE is 10^8 in raw units)
FDivScale(x, mant) ==
    LET k == LimbBits * ((mant + 30) \div LimbBits + 1)
        d1 == DivSmall(Shl(x.m, k), 10000)
        d2 == DivSmall(d1.q, 10000)
    IN Round(d2.q, d1.rem # 0 \/ d2.rem # 0, x.e - k, mant)

\* x < y in long double
FLess(x, y) ==
    LET e0 == IF x.e < y.e THEN x.e ELSE y.e
    IN BigLess(Shl(x.m, x.e - e0), Shl(y.m, y.e - e0))

\* notional > limits_.max_notional, for price > 0 and quantity > 0
NotionalExceeds(price, quantity, limit, mant) ==
    IF limit.neg THEN TRUE
    ELSE FLess(ToLongDouble(limit.mag, mant),
               FDivScale(FMul(ToLongDouble(price.mag, mant),
                              ToLongDouble(quantity.mag, mant), mant), mant))

\* RiskChecker::check_order with limits_ = limits, built with a long double
\* of mant binary digits.
RiskChecker_check_order(order, limits, mant) ==
    IF ~I64Positive(order.quantity) THEN "INVALID_QUANTITY"
    ELSE IF order.type = "LIMIT" /\ ~I64Positive(order.price) THEN "INVALID_PRICE"
    ELSE IF order.symbol \notin limits.allowed_symbols THEN "INVALID_SYMBOL"
    ELSE IF I64Less(limits.max_order_size, order.quantity)
         THEN "MAX_ORDER_SIZE_EXCEEDED"
    ELSE IF order.type = "LIMIT"
            /\ NotionalExceeds(order.price, order.quantity, limits.max_notional, mant)
         THEN "MAX_NOTIONAL_EXCEEDED"
    ELSE "NONE"

\* The default RiskLimits, in raw units.
DefaultLimits ==
    [max_order_size |-> I64(0, max_order_size, 0),
     max_notional |-> I64(0, max_notional, 0),
     allowed_symbols |-> allowed_symbols]

\* The number of binary digits of the build's long double: x87 extended,
\* IEEE double, IEEE quadruple.
LongDoubleDigits == {53, 64, 113}

\* ------------------------------------------------------------------------
\* OrderBook
\* ------------------------------------------------------------------------
EmptyBook == [bids |-> <<>>, asks |-> <<>>, bid_orders |-> {}, ask_orders |-> {}]

\* PushBack that inserts at the front of the level.
PushFront(levels, price, id) ==
    IF price \in DOMAIN levels
    THEN [levels EXCEPT ![price] = <<id>> \o @]
    ELSE [p \in DOMAIN levels \cup {price} |->
            IF p = price THEN <<id>> ELSE levels[p]]

PushBack(levels, price, id) ==
    IF price \in DOMAIN levels
    THEN [levels EXCEPT ![price] = Append(@, id)]
    ELSE [p \in DOMAIN levels \cup {price} |->
            IF p = price THEN <<id>> ELSE levels[p]]

\* add_order that adds nothing.
add_order_nowhere(book, order) == book

add_order(book, order) ==
    IF order.side = "BUY"
    THEN [book EXCEPT !.bids = PushBack(@, order.price, order.id),
                      !.bid_orders = @ \cup {order.id}]
    ELSE [book EXCEPT !.asks = PushBack(@, order.price, order.id),
                      !.ask_orders = @ \cup {order.id}]

\* EraseFromLevels that finds nothing to erase.
EraseFromLevelsNothing(levels, price, id) == levels

EraseFromLevels(levels, price, id) ==
    IF price \notin DOMAIN levels THEN levels
    ELSE LET v == RemoveAll(levels[price], id)
         IN IF v = <<>>
            THEN [p \in DOMAIN levels \ {price} |-> levels[p]]
            ELSE [levels EXCEPT ![price] = v]

\* remove_from_price_level that looks on the other side of the book.
remove_from_price_level_other_side(book, order) ==
    IF order.side = "SELL"
    THEN [book EXCEPT !.bids = EraseFromLevels(@, order.price, order.id)]
    ELSE [book EXCEPT !.asks = EraseFromLevels(@, order.price, order.id)]

remove_from_price_level(book, order) ==
    IF order.side = "BUY"
    THEN [book EXCEPT !.bids = EraseFromLevels(@, order.price, order.id)]
    ELSE [book EXCEPT !.asks = EraseFromLevels(@, order.price, order.id)]

\* remove_order that erases the id from the index and leaves the price level.
remove_order_index_only(book, ords, order_id) ==
    IF order_id \in book.bid_orders
    THEN [book EXCEPT !.bid_orders = @ \ {order_id}]
    ELSE IF order_id \in book.ask_orders
    THEN [book EXCEPT !.ask_orders = @ \ {order_id}]
    ELSE book

remove_order(book, ords, order_id) ==
    IF order_id \in book.bid_orders
    THEN [remove_from_price_level(book, ords[order_id])
            EXCEPT !.bid_orders = @ \ {order_id}]
    ELSE IF order_id \in book.ask_orders
    THEN [remove_from_price_level(book, ords[order_id])
            EXCEPT !.ask_orders = @ \ {order_id}]
    ELSE book

best_bid_price(book) == SetMax(DOMAIN book.bids)

best_ask_price(book) == SetMin(DOMAIN book.asks)

get_bids_at_best(book) ==
    IF DOMAIN book.bids = {} THEN <<>> ELSE book.bids[best_bid_price(book)]

get_asks_at_best(book) ==
    IF DOMAIN book.asks = {} THEN <<>> ELSE book.asks[best_ask_price(book)]

is_crossed(book) ==
    /\ DOMAIN book.bids # {}
    /\ DOMAIN book.asks # {}
    /\ best_bid_price(book) >= best_ask_price(book)

\* update_order_qty changes the order through the book's pointer and the book:
\* the result is the pair of both.
\* update_order_qty that leaves a filled order on the book.
update_order_qty_stay(book, ords, order_id, new_remaining_qty) ==
    IF order_id \notin book.bid_orders \cup book.ask_orders
    THEN [book |-> book, orders |-> ords]
    ELSE IF new_remaining_qty < 0
    THEN LET o2 == [ords EXCEPT ![order_id].remaining_qty = new_remaining_qty,
                                ![order_id].status = "FILLED"]
         IN [book |-> remove_order(book, o2, order_id), orders |-> o2]
    ELSE [book |-> book,
          orders |-> [ords EXCEPT ![order_id].remaining_qty = new_remaining_qty,
                                  ![order_id].status = "PARTIAL"]]

\* update_order_qty that does not store the new quantity of a filled order.
update_order_qty_keep(book, ords, order_id, new_remaining_qty) ==
    IF order_id \notin book.bid_orders \cup book.ask_orders
    THEN [book |-> book, orders |-> ords]
    ELSE IF new_remaining_qty = 0
    THEN LET o2 == [ords EXCEPT ![order_id].status = "FILLED"]
         IN [book |-> remove_order(book, o2, order_id), orders |-> o2]
    ELSE [book |-> book,
          orders |-> [ords EXCEPT ![order_id].remaining_qty = new_remaining_qty,
                                  ![order_id].status = "PARTIAL"]]

\* update_order_qty that marks an order whose quantity reached 0 as NEW.
update_order_qty_new(book, ords, order_id, new_remaining_qty) ==
    IF order_id \notin book.bid_orders \cup book.ask_orders
    THEN [book |-> book, orders |-> ords]
    ELSE IF new_remaining_qty = 0
    THEN LET o2 == [ords EXCEPT ![order_id].remaining_qty = new_remaining_qty,
                                ![order_id].status = "NEW"]
         IN [book |-> remove_order(book, o2, order_id), orders |-> o2]
    ELSE [book |-> book,
          orders |-> [ords EXCEPT ![order_id].remaining_qty = new_remaining_qty,
                                  ![order_id].status = "PARTIAL"]]

update_order_qty(book, ords, order_id, new_remaining_qty) ==
    IF order_id \notin book.bid_orders \cup book.ask_orders
    THEN [book |-> book, orders |-> ords]
    ELSE IF new_remaining_qty = 0
    THEN LET o2 == [ords EXCEPT ![order_id].remaining_qty = new_remaining_qty,
                                ![order_id].status = "FILLED"]
         IN [book |-> remove_order(book, o2, order_id), orders |-> o2]
    ELSE [book |-> book,
          orders |-> [ords EXCEPT ![order_id].remaining_qty = new_remaining_qty,
                                  ![order_id].status = "PARTIAL"]]

\* ------------------------------------------------------------------------
\* MatchingEngine
\* ------------------------------------------------------------------------
get_or_create_book(bks, symbol) ==
    IF symbol \in DOMAIN bks THEN bks
    ELSE [s \in DOMAIN bks \cup {symbol} |->
            IF s = symbol THEN EmptyBook ELSE bks[s]]

\* LogAppend that writes the line twice.
LogAppendTwice(lg, seq, type, payload) ==
    lg \o << [sequence |-> seq + 1, type |-> type, payload |-> payload],
             [sequence |-> seq + 1, type |-> type, payload |-> payload] >>

\* log_event: next_sequence() pre-increments, append writes one line.
LogAppend(lg, seq, type, payload) ==
    Append(lg, [sequence |-> seq + 1, type |-> type, payload |-> payload])

\* A default-constructed Order (types.hpp): what a result carries when no
\* order was copied into it.
DefaultOrder ==
    [id |-> 0, account_id |-> "", symbol |-> "", side |-> "BUY", type |-> "LIMIT",
     price |-> 0, quantity |-> 0, remaining_qty |-> 0, status |-> "NEW",
     idempotency_key |-> ""]

\* A JSON value of a request: a string, a number, or a key that is absent.
Absent == [kind |-> "absent", s |-> "", n |-> 0]

Str(x) == [kind |-> "string", s |-> x, n |-> 0]

Num(x) == [kind |-> "number", s |-> "", n |-> x]

\* The value of the key "order" where the request has none.
NoOrderObject ==
    [kind |-> "absent", account_id |-> Absent, symbol |-> Absent, side |-> Absent,
     type |-> Absent, price |-> Absent, quantity |-> Absent]

\* main holds no line: it waits in getline.
NoLine ==
    [form |-> "none", cmd |-> Absent, req_id |-> Absent, order |-> NoOrderObject,
     order_id |-> Absent]

\* No call that reads the engine was made.
NoQuery == [op |-> "none", trades |-> <<>>, symbol |-> "", limit |-> 0]

\* No engine ran on the log file before this one.
NoPrior ==
    [orders |-> <<>>, books |-> <<>>, trades |-> <<>>, idempotency_keys |-> {},
     next_order_id |-> 0, next_trade_id |-> 0]

\* No RiskChecker is under check on its own.
NoCheck == [order |-> DefaultOrder, limits |-> <<>>, mant |-> 0]

NoResult ==
    [op |-> "none", success |-> FALSE, error_code |-> "NONE",
     order |-> DefaultOrder, trades |-> <<>>]

\* Rejected that reports INTERNAL_ERROR whatever the check found.
RejectedInternal(code) ==
    [op |-> "place_order", success |-> FALSE, error_code |-> "INTERNAL_ERROR",
     order |-> DefaultOrder, trades |-> <<>>]

Rejected(code) ==
    [op |-> "place_order", success |-> FALSE, error_code |-> code,
     order |-> DefaultOrder, trades |-> <<>>]

\* The threads that append to one EventLog.
Threads == 1..MaxThreads

\* An EventLog on an open file, and threads that have not called append yet.
AppendInit ==
    /\ thread = [t \in Threads |-> [pc |-> "call", calls |-> 0]]
    /\ enabled_ = TRUE
    /\ mutex_ = 0
    /\ buffer = <<>>
    /\ file_ = <<>>

\* The engine after construction.
EngineInit ==
    /\ orders = <<>>
    /\ books = <<>>
    /\ trades = <<>>
    /\ idempotency_keys = {}
    /\ next_order_id = 1
    /\ next_trade_id = 1
    /\ stats = [total_orders |-> 0, total_trades |-> 0,
                total_cancels |-> 0, total_rejects |-> 0]
    /\ sequence = 0
    /\ pc = "idle"
    /\ raw = 0
    /\ r = NoResult

Init ==
    /\ EngineInit
    /\ log = <<>>
    /\ risk_in = NoCheck
    /\ risk_out = "unset"
    /\ restarts = 0
    /\ prior = NoPrior
    /\ recovers = 0
    /\ snapshots = <<>>
    /\ line = NoLine
    /\ cout = <<>>
    /\ query = NoQuery
    /\ answer = <<>>
    /\ AppendInit

\* The number of events of one type in the log file.
Logged(lg, type) == Len(SelectSeq(lg, LAMBDA e : e.type = type))

\* NextId that leaves the counter where it is.
NextIdStuck(n) == n

\* next_order_id_++ and next_trade_id_++: the counter after handing out id n.
NextId(n) == n + 1

\* IsDuplicate that finds no key consumed.
IsDuplicateNever(order, keys) == FALSE

\* The idempotency check of place_order.
IsDuplicate(order, keys) ==
    order.idempotency_key # "" /\ order.idempotency_key \in keys

\* InsertKey that consumes no key.
InsertKeyNever(keys, order) == keys

\* if (!order.idempotency_key.empty()) idempotency_keys_.insert(...)
InsertKey(keys, order) ==
    IF order.idempotency_key # "" THEN keys \cup {order.idempotency_key} ELSE keys

\* place_order up to the call of match(): idempotency check, risk check,
\* id assignment, store, ORDER_PLACED event; match() fetches the book.
place_order_begin(order) ==
    /\ pc = "idle"
    /\ UNCHANGED other_vars
    /\ IF IsDuplicate(order, idempotency_keys)
       THEN /\ stats.total_rejects < MaxRejects
            /\ r' = Rejected("DUPLICATE_IDEMPOTENCY_KEY")
            /\ stats' = [stats EXCEPT !.total_rejects = @ + 1]
            /\ UNCHANGED <<orders, books, trades, idempotency_keys, next_order_id,
                           next_trade_id, sequence, log, pc, raw>>
       ELSE IF check_order(order) # "NONE"
       THEN /\ stats.total_rejects < MaxRejects
            /\ r' = Rejected(check_order(order))
            /\ stats' = [stats EXCEPT !.total_rejects = @ + 1]
            /\ UNCHANGED <<orders, books, trades, idempotency_keys, next_order_id,
                           next_trade_id, sequence, log, pc, raw>>
       ELSE LET o == [id |-> next_order_id,
                      account_id |-> order.account_id,
                      symbol |-> order.symbol,
                      side |-> order.side,
                      type |-> order.type,
                      price |-> order.price,
                      quantity |-> order.quantity,
                      remaining_qty |-> order.quantity,
                      status |-> "NEW",
                      idempotency_key |-> order.idempotency_key]
            IN /\ Logged(log, "ORDER_PLACED") < MaxOrders
               /\ next_order_id' = NextId(next_order_id)
               /\ idempotency_keys' = InsertKey(idempotency_keys, order)
               /\ orders' = [i \in DOMAIN orders \cup {o.id} |->
                               IF i = o.id THEN o ELSE orders[i]]
               /\ log' = LogAppend(log, sequence, "ORDER_PLACED", o)
               /\ sequence' = sequence + 1
               /\ stats' = [stats EXCEPT !.total_orders = @ + 1]
               /\ books' = get_or_create_book(books, o.symbol)
               /\ raw' = o.id
               /\ r' = [op |-> "place_order", success |-> FALSE,
                        error_code |-> "NONE", order |-> DefaultOrder,
                        trades |-> <<>>]
               /\ pc' = "match"
               /\ UNCHANGED <<trades, next_trade_id>>

\* The resting orders the incoming order is matched against.
Resting(book, incoming) ==
    IF incoming.side = "BUY" THEN get_asks_at_best(book) ELSE get_bids_at_best(book)

\* CanTrade without the self-trade check.
CanTradeSelf(incoming, resting, ords) ==
    /\ incoming.remaining_qty > 0
    /\ resting # <<>>
    /\ LET best == ords[Head(resting)]
       IN /\ ~(incoming.type = "LIMIT" /\ incoming.side = "BUY"
                 /\ best.price > incoming.price)
          /\ ~(incoming.type = "LIMIT" /\ incoming.side = "SELL"
                 /\ best.price < incoming.price)

\* CanTrade that takes a resting order at the limit price for unacceptable.
CanTradeBeyondLimit(incoming, resting, ords) ==
    /\ incoming.remaining_qty > 0
    /\ resting # <<>>
    /\ LET best == ords[Head(resting)]
       IN /\ ~(incoming.type = "LIMIT" /\ incoming.side = "BUY"
                 /\ best.price >= incoming.price)
          /\ ~(incoming.type = "LIMIT" /\ incoming.side = "SELL"
                 /\ best.price <= incoming.price)
          /\ incoming.account_id # best.account_id

\* The condition under which the loop of match() executes a trade.
CanTrade(incoming, resting, ords) ==
    /\ incoming.remaining_qty > 0
    /\ resting # <<>>
    /\ LET best == ords[Head(resting)]
       IN /\ ~(incoming.type = "LIMIT" /\ incoming.side = "BUY"
                 /\ best.price > incoming.price)
          /\ ~(incoming.type = "LIMIT" /\ incoming.side = "SELL"
                 /\ best.price < incoming.price)
          /\ incoming.account_id # best.account_id

\* MakeTrade that reports the whole quantity of the incoming order.
MakeTradeTakerQty(incoming, best, qty, id) ==
    [id |-> id,
     buy_order_id |-> IF incoming.side = "BUY" THEN incoming.id ELSE best.id,
     sell_order_id |-> IF incoming.side = "BUY" THEN best.id ELSE incoming.id,
     symbol |-> incoming.symbol,
     price |-> best.price,
     quantity |-> incoming.quantity,
     buyer_account_id |->
        IF incoming.side = "BUY" THEN incoming.account_id ELSE best.account_id,
     seller_account_id |->
        IF incoming.side = "BUY" THEN best.account_id ELSE incoming.account_id]

\* MakeTrade that prints the incoming order's price.
MakeTradeTakerPrice(incoming, best, qty, id) ==
    [id |-> id,
     buy_order_id |-> IF incoming.side = "BUY" THEN incoming.id ELSE best.id,
     sell_order_id |-> IF incoming.side = "BUY" THEN best.id ELSE incoming.id,
     symbol |-> incoming.symbol,
     price |-> incoming.price,
     quantity |-> qty,
     buyer_account_id |->
        IF incoming.side = "BUY" THEN incoming.account_id ELSE best.account_id,
     seller_account_id |->
        IF incoming.side = "BUY" THEN best.account_id ELSE incoming.account_id]

MakeTrade(incoming, best, qty, id) ==
    [id |-> id,
     buy_order_id |-> IF incoming.side = "BUY" THEN incoming.id ELSE best.id,
     sell_order_id |-> IF incoming.side = "BUY" THEN best.id ELSE incoming.id,
     symbol |-> incoming.symbol,
     price |-> best.price,
     quantity |-> qty,
     buyer_account_id |->
        IF incoming.side = "BUY" THEN incoming.account_id ELSE best.account_id,
     seller_account_id |->
        IF incoming.side = "BUY" THEN best.account_id ELSE incoming.account_id]

\* One pass of the loop of match() that executes a trade.
match ==
    /\ pc = "match"
    /\ CanTrade(orders[raw], Resting(books[orders[raw].symbol], orders[raw]), orders)
    /\ LET incoming == orders[raw]
           book == books[incoming.symbol]
           best == orders[Head(Resting(book, incoming))]
           qty == Min2(incoming.remaining_qty, best.remaining_qty)
           t == MakeTrade(incoming, best, qty, next_trade_id)
           o1 == [orders EXCEPT ![raw].remaining_qty = @ - qty]
           u == update_order_qty(book, o1, best.id, best.remaining_qty - qty)
       IN /\ next_trade_id' = NextId(next_trade_id)
          /\ trades' = Append(trades, t)
          /\ r' = [r EXCEPT !.trades = Append(@, t)]
          /\ log' = LogAppend(log, sequence, "TRADE_EXECUTED", t)
          /\ sequence' = sequence + 1
          /\ stats' = [stats EXCEPT !.total_trades = @ + 1]
          /\ orders' = u.orders
          /\ books' = [books EXCEPT ![incoming.symbol] = u.book]
    /\ UNCHANGED <<idempotency_keys, next_order_id, pc, raw>>
    /\ UNCHANGED other_vars

\* would_cross with strict comparisons.
would_cross_strict(book, o) ==
    IF o.side = "BUY"
    THEN DOMAIN book.asks # {} /\ o.price > SetMin(DOMAIN book.asks)
    ELSE DOMAIN book.bids # {} /\ o.price < SetMax(DOMAIN book.bids)

would_cross(book, o) ==
    IF o.side = "BUY"
    THEN DOMAIN book.asks # {} /\ o.price >= best_ask_price(book)
    ELSE DOMAIN book.bids # {} /\ o.price <= best_bid_price(book)

\* place_order_end that rests what is left of a MARKET order that traded.
place_order_end_rests_market ==
    /\ pc = "match"
    /\ ~CanTrade(orders[raw], Resting(books[orders[raw].symbol], orders[raw]), orders)
    /\ pc' = "idle"
    /\ LET o == orders[raw]
           bks == get_or_create_book(books, o.symbol)
           book == bks[o.symbol]
       IN IF o.remaining_qty = 0
          THEN LET o2 == [o EXCEPT !.status = "FILLED"]
               IN /\ orders' = [orders EXCEPT ![raw] = o2]
                  /\ r' = [r EXCEPT !.success = TRUE, !.order = o2]
                  /\ UNCHANGED <<books, stats>>
          ELSE IF o.type = "MARKET"
          THEN IF o.remaining_qty = o.quantity
               THEN LET o2 == [o EXCEPT !.status = "REJECTED"]
                    IN /\ orders' = [orders EXCEPT ![raw] = o2]
                       /\ r' = [r EXCEPT !.success = FALSE,
                                         !.error_code = "NO_LIQUIDITY",
                                         !.order = o2]
                       /\ stats' = [stats EXCEPT !.total_rejects = @ + 1]
                       /\ UNCHANGED books
               ELSE LET o2 == [o EXCEPT !.status = "PARTIAL"]
                    IN /\ orders' = [orders EXCEPT ![raw] = o2]
                       /\ books' = [bks EXCEPT ![o.symbol] = add_order(book, o2)]
                       /\ r' = [r EXCEPT !.success = TRUE, !.order = o2]
                       /\ UNCHANGED stats
          ELSE IF o.type = "LIMIT" /\ o.remaining_qty > 0
          THEN IF would_cross(book, o)
               THEN LET o2 == [o EXCEPT !.status = "REJECTED"]
                    IN /\ orders' = [orders EXCEPT ![raw] = o2]
                       /\ r' = [r EXCEPT !.success = FALSE,
                                         !.error_code = "SELF_TRADE_PREVENTED",
                                         !.order = o2]
                       /\ stats' = [stats EXCEPT !.total_rejects = @ + 1]
                       /\ books' = bks
               ELSE LET o2 == IF o.remaining_qty < o.quantity
                              THEN [o EXCEPT !.status = "PARTIAL"] ELSE o
                    IN /\ orders' = [orders EXCEPT ![raw] = o2]
                       /\ books' = [bks EXCEPT ![o.symbol] = add_order(book, o2)]
                       /\ r' = [r EXCEPT !.success = TRUE, !.order = o2]
                       /\ UNCHANGED stats
          ELSE /\ r' = [r EXCEPT !.success = TRUE, !.order = o]
               /\ UNCHANGED <<orders, books, stats>>
    /\ UNCHANGED <<trades, idempotency_keys, next_order_id, next_trade_id,
                   sequence, log, raw>>
    /\ UNCHANGED other_vars

\* The loop of match() ends and place_order goes on after match() returned:
\* status and book membership.
place_order_end ==
    /\ pc = "match"
    /\ ~CanTrade(orders[raw], Resting(books[orders[raw].symbol], orders[raw]), orders)
    /\ pc' = "idle"
    /\ LET o == orders[raw]
           bks == get_or_create_book(books, o.symbol)
           book == bks[o.symbol]
       IN IF o.remaining_qty = 0
          THEN LET o2 == [o EXCEPT !.status = "FILLED"]
               IN /\ orders' = [orders EXCEPT ![raw] = o2]
                  /\ r' = [r EXCEPT !.success = TRUE, !.order = o2]
                  /\ UNCHANGED <<books, stats>>
          ELSE IF o.type = "MARKET"
          THEN IF o.remaining_qty = o.quantity
               THEN LET o2 == [o EXCEPT !.status = "REJECTED"]
                    IN /\ orders' = [orders EXCEPT ![raw] = o2]
                       /\ r' = [r EXCEPT !.success = FALSE,
                                         !.error_code = "NO_LIQUIDITY",
                                         !.order = o2]
                       /\ stats' = [stats EXCEPT !.total_rejects = @ + 1]
                       /\ UNCHANGED books
               ELSE LET o2 == [o EXCEPT !.status = "PARTIAL"]
                    IN /\ orders' = [orders EXCEPT ![raw] = o2]
                       /\ r' = [r EXCEPT !.success = TRUE, !.order = o2]
                       /\ UNCHANGED <<books, stats>>
          ELSE IF o.type = "LIMIT" /\ o.remaining_qty > 0
          THEN IF would_cross(book, o)
               THEN LET o2 == [o EXCEPT !.status = "REJECTED"]
                    IN /\ orders' = [orders EXCEPT ![raw] = o2]
                       /\ r' = [r EXCEPT !.success = FALSE,
                                         !.error_code = "SELF_TRADE_PREVENTED",
                                         !.order = o2]
                       /\ stats' = [stats EXCEPT !.total_rejects = @ + 1]
                       /\ books' = bks
               ELSE LET o2 == IF o.remaining_qty < o.quantity
                              THEN [o EXCEPT !.status = "PARTIAL"] ELSE o
                    IN /\ orders' = [orders EXCEPT ![raw] = o2]
                       /\ books' = [bks EXCEPT ![o.symbol] = add_order(book, o2)]
                       /\ r' = [r EXCEPT !.success = TRUE, !.order = o2]
                       /\ UNCHANGED stats
          ELSE /\ r' = [r EXCEPT !.success = TRUE, !.order = o]
               /\ UNCHANGED <<orders, books, stats>>
    /\ UNCHANGED <<trades, idempotency_keys, next_order_id, next_trade_id,
                   sequence, log, raw>>
    /\ UNCHANGED other_vars

\* cancel_order that refuses only an order that is already CANCELLED.
cancel_order_any_status(order_id) ==
    /\ pc = "idle"
    /\ IF order_id \notin DOMAIN orders
       THEN /\ r' = [op |-> "cancel_order", success |-> FALSE,
                     error_code |-> "ORDER_NOT_FOUND", order |-> DefaultOrder,
                     trades |-> <<>>]
            /\ UNCHANGED <<orders, books, stats, sequence, log>>
       ELSE IF orders[order_id].status \in {"CANCELLED"}
       THEN /\ r' = [op |-> "cancel_order", success |-> FALSE,
                     error_code |-> "ORDER_NOT_FOUND",
                     order |-> orders[order_id], trades |-> <<>>]
            /\ UNCHANGED <<orders, books, stats, sequence, log>>
       ELSE LET ord == orders[order_id]
                o2 == [ord EXCEPT !.status = "CANCELLED"]
            IN /\ Logged(log, "ORDER_CANCELLED") < MaxCancels
               /\ books' =
                     IF ord.symbol \in DOMAIN books
                     THEN [books EXCEPT ![ord.symbol] =
                                          remove_order(@, orders, order_id)]
                     ELSE books
               /\ orders' = [orders EXCEPT ![order_id] = o2]
               /\ log' = LogAppend(log, sequence, "ORDER_CANCELLED",
                                   [order_id |-> order_id])
               /\ sequence' = sequence + 1
               /\ stats' = [stats EXCEPT !.total_cancels = @ + 1]
               /\ r' = [op |-> "cancel_order", success |-> TRUE,
                        error_code |-> "ORDER_NOT_FOUND", order |-> o2,
                        trades |-> <<>>]
    /\ UNCHANGED <<trades, idempotency_keys, next_order_id, next_trade_id, pc, raw>>
    /\ UNCHANGED other_vars

cancel_order(order_id) ==
    /\ pc = "idle"
    /\ IF order_id \notin DOMAIN orders
       THEN /\ r' = [op |-> "cancel_order", success |-> FALSE,
                     error_code |-> "ORDER_NOT_FOUND", order |-> DefaultOrder,
                     trades |-> <<>>]
            /\ UNCHANGED <<orders, books, stats, sequence, log>>
       ELSE IF orders[order_id].status \in {"FILLED", "CANCELLED", "REJECTED"}
       THEN /\ r' = [op |-> "cancel_order", success |-> FALSE,
                     error_code |-> "ORDER_NOT_FOUND",
                     order |-> orders[order_id], trades |-> <<>>]
            /\ UNCHANGED <<orders, books, stats, sequence, log>>
       ELSE LET ord == orders[order_id]
                o2 == [ord EXCEPT !.status = "CANCELLED"]
            IN /\ Logged(log, "ORDER_CANCELLED") < MaxCancels
               /\ books' =
                     IF ord.symbol \in DOMAIN books
                     THEN [books EXCEPT ![ord.symbol] =
                                          remove_order(@, orders, order_id)]
                     ELSE books
               /\ orders' = [orders EXCEPT ![order_id] = o2]
               /\ log' = LogAppend(log, sequence, "ORDER_CANCELLED",
                                   [order_id |-> order_id])
               /\ sequence' = sequence + 1
               /\ stats' = [stats EXCEPT !.total_cancels = @ + 1]
               /\ r' = [op |-> "cancel_order", success |-> TRUE,
                        error_code |-> "ORDER_NOT_FOUND", order |-> o2,
                        trades |-> <<>>]
    /\ UNCHANGED <<trades, idempotency_keys, next_order_id, next_trade_id, pc, raw>>
    /\ UNCHANGED other_vars

\* ------------------------------------------------------------------------
\* Recovery
\* ------------------------------------------------------------------------
\* from_json(Order): reads account_id, symbol, side, type, price, quantity
\* and idempotency_key, sets remaining_qty to quantity, and leaves id and
\* status of the default-constructed Order as they are.
from_json_Order(j) ==
    [DefaultOrder EXCEPT !.account_id = j.account_id,
                         !.symbol = j.symbol,
                         !.side = j.side,
                         !.type = j.type,
                         !.price = j.price,
                         !.quantity = j.quantity,
                         !.remaining_qty = j.quantity,
                         !.idempotency_key = j.idempotency_key]

\* from_json(Trade): reads every field.
from_json_Trade(j) ==
    [id |-> j.id,
     buy_order_id |-> j.buy_order_id,
     sell_order_id |-> j.sell_order_id,
     symbol |-> j.symbol,
     price |-> j.price,
     quantity |-> j.quantity,
     buyer_account_id |-> j.buyer_account_id,
     seller_account_id |-> j.seller_account_id]

\* The memory of an engine that replay_events works on.
Memory(ords, bks, ts, keys, oid, tid) ==
    [orders |-> ords, books |-> bks, trades |-> ts, idempotency_keys |-> keys,
     next_order_id |-> oid, next_trade_id |-> tid]

\* replay_events, case ORDER_PLACED.
replay_order_placed(m, payload) ==
    LET order == from_json_Order(payload)
    IN IF order.id \in DOMAIN m.orders
       THEN m
       ELSE [m EXCEPT
               !.books =
                   IF /\ order.status \in {"NEW", "PARTIAL"}
                      /\ order.type = "LIMIT"
                      /\ order.remaining_qty > 0
                   THEN [get_or_create_book(@, order.symbol)
                           EXCEPT ![order.symbol] = add_order(@, order)]
                   ELSE @,
               !.idempotency_keys =
                   IF order.idempotency_key # ""
                   THEN @ \cup {order.idempotency_key}
                   ELSE @,
               !.orders = [i \in DOMAIN @ \cup {order.id} |->
                             IF i = order.id THEN order ELSE @[i]],
               !.next_order_id =
                   IF order.id >= @ THEN order.id + 1 ELSE @]

\* replay_events, case ORDER_CANCELLED.
replay_order_cancelled(m, payload) ==
    LET order_id == payload.order_id
    IN IF order_id \notin DOMAIN m.orders
       THEN m
       ELSE LET ords == [m.orders EXCEPT ![order_id].status = "CANCELLED"]
                symbol == ords[order_id].symbol
            IN [m EXCEPT
                  !.orders = ords,
                  !.books =
                      IF symbol \in DOMAIN @
                      THEN [@ EXCEPT ![symbol] = remove_order(@, ords, order_id)]
                      ELSE @]

\* replay_events, case TRADE_EXECUTED: what it does to one side of the trade.
replay_fill(m, order_id, quantity) ==
    IF order_id \notin DOMAIN m.orders
    THEN m
    ELSE IF m.orders[order_id].remaining_qty - quantity <= 0
    THEN LET ords == [m.orders EXCEPT ![order_id].remaining_qty = 0,
                                      ![order_id].status = "FILLED"]
             symbol == ords[order_id].symbol
         IN [m EXCEPT
               !.orders = ords,
               !.books =
                   IF symbol \in DOMAIN @
                   THEN [@ EXCEPT ![symbol] = remove_order(@, ords, order_id)]
                   ELSE @]
    ELSE [m EXCEPT !.orders[order_id].remaining_qty = @ - quantity,
                   !.orders[order_id].status = "PARTIAL"]

\* replay_events, case TRADE_EXECUTED.
replay_trade_executed(m, payload) ==
    LET trade == from_json_Trade(payload)
        m1 == [m EXCEPT !.trades = Append(@, trade),
                        !.next_trade_id =
                            IF trade.id >= @ THEN trade.id + 1 ELSE @]
        m2 == replay_fill(m1, trade.buy_order_id, trade.quantity)
    IN replay_fill(m2, trade.sell_order_id, trade.quantity)

RECURSIVE replay_events(_, _)
replay_events(m, events) ==
    IF events = <<>>
    THEN m
    ELSE LET event == Head(events)
             m1 == CASE event.type = "ORDER_PLACED" ->
                          replay_order_placed(m, event.payload)
                     [] event.type = "ORDER_CANCELLED" ->
                          replay_order_cancelled(m, event.payload)
                     [] event.type = "TRADE_EXECUTED" ->
                          replay_trade_executed(m, event.payload)
                     [] OTHER -> m
         IN replay_events(m1, Tail(events))

\* ------------------------------------------------------------------------
\* Snapshots
\* ------------------------------------------------------------------------
\* What a level of a book holds in place of an order that was destroyed: a
\* pointer to freed memory.
Dangling == -1

\* Every order of the orders map, active or not.
AnyIds(ords) == DOMAIN ords

\* The orders of the orders map that are active.
ActiveIds(ords) == {id \in DOMAIN ords : ords[id].status \in {"NEW", "PARTIAL"}}

\* The orders in which a loop over a map can visit the keys S: the iteration
\* order of an unordered_map is left to the implementation.
Enumerations(S) ==
    {f \in [1..Cardinality(S) -> S] :
        \A i, j \in 1..Cardinality(S) : f[i] = f[j] => i = j}

\* create_snapshot, for one iteration order of orders_.
create_snapshot(ords, oid, tid, seq, visit) ==
    [sequence |-> seq,
     next_order_id |-> oid,
     next_trade_id |-> tid,
     orders |-> [k \in 1..Len(visit) |-> ords[visit[k]]]]

\* SnapshotManager::save: the file snapshot_<sequence>.json is written, over
\* a file of that name if there is one.
save(files, snapshot) ==
    [q \in DOMAIN files \cup {snapshot.sequence} |->
        IF q = snapshot.sequence THEN snapshot ELSE files[q]]

\* from_json(Snapshot): every field is read, the orders by from_json(Order).
from_json_Snapshot(j) ==
    [sequence |-> j.sequence,
     next_order_id |-> j.next_order_id,
     next_trade_id |-> j.next_trade_id,
     orders |-> [k \in 1..Len(j.orders) |-> from_json_Order(j.orders[k])]]

\* SnapshotManager::load_latest: the sequences of the files that the scan,
\* which starts from max_seq = 0 and takes a file only if seq > max_seq,
\* can select.
Loadable(files) == {q \in DOMAIN files : q > 0}

load_latest(files) == from_json_Snapshot(files[SetMax(Loadable(files))])

\* The levels of a side where every entry for the order id is a pointer to
\* the destroyed order.
FreeInLevels(levels, id) ==
    [p \in DOMAIN levels |->
        [k \in 1..Len(levels[p]) |->
            IF levels[p][k] = id THEN Dangling ELSE levels[p][k]]]

\* orders_[o.id] = std::move(ptr) where orders_ holds an order under o.id:
\* the order held before is destroyed, the books keep their pointers to it.
FreeInBooks(bks, id) ==
    [sym \in DOMAIN bks |->
        [bks[sym] EXCEPT !.bids = FreeInLevels(@, id),
                         !.asks = FreeInLevels(@, id)]]

\* recover(), the loop over the orders of the snapshot.
RECURSIVE restore_orders(_, _)
restore_orders(m, os) ==
    IF os = <<>>
    THEN m
    ELSE LET o == Head(os)
             freed == IF o.id \in DOMAIN m.orders
                      THEN FreeInBooks(m.books, o.id) ELSE m.books
             m1 == [m EXCEPT
                      !.books =
                          IF /\ o.status \in {"NEW", "PARTIAL"}
                             /\ o.remaining_qty > 0
                             /\ o.type = "LIMIT"
                          THEN [get_or_create_book(freed, o.symbol)
                                  EXCEPT ![o.symbol] = add_order(@, o)]
                          ELSE freed,
                      !.idempotency_keys =
                          IF o.idempotency_key # ""
                          THEN @ \cup {o.idempotency_key}
                          ELSE @,
                      !.orders = [i \in DOMAIN @ \cup {o.id} |->
                                    IF i = o.id THEN o ELSE @[i]]]
         IN restore_orders(m1, Tail(os))

\* EventLog::read_from: the events whose sequence is at least start_sequence.
read_from(lg, start_sequence) ==
    SelectSeq(lg, LAMBDA e : e.sequence >= start_sequence)

\* recover() that does nothing and reports a recovery.
recover_reports_true(m, files, lg) == [memory |-> m, result |-> TRUE]

\* recover(): the memory of the engine after the call, and what it returns.
recover(m, files, lg) ==
    IF Loadable(files) # {}
    THEN LET snap == load_latest(files)
             cleared == [m EXCEPT !.orders = <<>>, !.books = <<>>,
                                  !.idempotency_keys = {}]
             restored == [restore_orders(cleared, snap.orders)
                            EXCEPT !.next_order_id = snap.next_order_id,
                                   !.next_trade_id = snap.next_trade_id]
         IN [memory |-> replay_events(restored, read_from(lg, snap.sequence + 1)),
             result |-> TRUE]
    ELSE IF read_from(lg, 0) # <<>>
    THEN [memory |-> replay_events(m, read_from(lg, 0)), result |-> TRUE]
    ELSE [memory |-> m, result |-> FALSE]

\* A new engine process on the log file and the snapshot directory of the one
\* before (main): the constructor builds an empty engine whose EventLog
\* counts from 0 and appends to the file, and recover() is called before any
\* command is read.
restart ==
    /\ pc = "idle"
    /\ restarts < MaxRestarts
    /\ restarts' = restarts + 1
    /\ recovers' = 1
    /\ prior' = Memory(orders, books, trades, idempotency_keys,
                       next_order_id, next_trade_id)
    /\ LET rec == recover(Memory(<<>>, <<>>, <<>>, {}, 1, 1), snapshots, log)
           m == rec.memory
       IN /\ orders' = m.orders
          /\ books' = m.books
          /\ trades' = m.trades
          /\ idempotency_keys' = m.idempotency_keys
          /\ next_order_id' = m.next_order_id
          /\ next_trade_id' = m.next_trade_id
          /\ r' = [op |-> "recover", success |-> rec.result,
                   error_code |-> "NONE", order |-> DefaultOrder,
                   trades |-> <<>>]
    /\ stats' = [total_orders |-> 0, total_trades |-> 0,
                 total_cancels |-> 0, total_rejects |-> 0]
    /\ sequence' = 0
    /\ raw' = 0
    /\ UNCHANGED <<log, pc, risk_in, risk_out, snapshots, line, cout, query, answer, append_vars>>

\* recover() called on an engine that is running.
recover_call ==
    /\ pc = "idle"
    /\ recovers < MaxRecovers
    /\ recovers' = recovers + 1
    /\ LET rec == recover(Memory(orders, books, trades, idempotency_keys,
                                 next_order_id, next_trade_id), snapshots, log)
           m == rec.memory
       IN /\ orders' = m.orders
          /\ books' = m.books
          /\ trades' = m.trades
          /\ idempotency_keys' = m.idempotency_keys
          /\ next_order_id' = m.next_order_id
          /\ next_trade_id' = m.next_trade_id
          /\ r' = [op |-> "recover", success |-> rec.result,
                   error_code |-> "NONE", order |-> DefaultOrder,
                   trades |-> <<>>]
    /\ UNCHANGED <<stats, sequence, log, pc, raw, risk_in, risk_out,
                   restarts, prior, snapshots, line, cout, query, answer, append_vars>>

\* An external caller saves a snapshot of the engine between two commands:
\* save(create_snapshot()).
save_snapshot ==
    /\ pc = "idle"
    /\ Cardinality(DOMAIN snapshots \cup {sequence}) <= MaxSnapshots
    /\ \E visit \in Enumerations(ActiveIds(orders)) :
          snapshots' = save(snapshots,
                            create_snapshot(orders, next_order_id, next_trade_id,
                                            sequence, visit))
    /\ UNCHANGED <<risk_in, risk_out, restarts, prior, recovers, line, cout,
                   query, answer, append_vars>>
    /\ UNCHANGED engine_vars

\* ------------------------------------------------------------------------
\* ProtocolHandler and the command loop of main
\* ------------------------------------------------------------------------
\* NLOHMANN_JSON_SERIALIZE_ENUM, reading: the enumerator whose name the JSON
\* value is, and the first enumerator of the list for every other value.
enum_from_json(j, names) ==
    IF j.kind = "string" /\ \E k \in 1..Len(names) : names[k] = j.s
    THEN j.s
    ELSE names[1]

\* at(key).get_to(string) and at(key).get_to(number) throw where the key is
\* absent or the value has another type.
string_throws(j) == j.kind # "string"

number_throws(j) == j.kind # "number"

\* cmd.at("order").get<Order>() throws: the key is absent, the value is no
\* object, or from_json(Order) throws at one of the keys it reads.
get_Order_throws(o) ==
    \/ o.kind # "object"
    \/ string_throws(o.account_id)
    \/ string_throws(o.symbol)
    \/ o.side.kind = "absent"
    \/ o.type.kind = "absent"
    \/ (o.price.kind # "absent" /\ number_throws(o.price))
    \/ number_throws(o.quantity)

\* cmd.at("order").get<Order>() where it does not throw.
get_Order(o) ==
    from_json_Order([account_id |-> o.account_id.s,
                     symbol |-> o.symbol.s,
                     side |-> enum_from_json(o.side, <<"BUY", "SELL">>),
                     type |-> enum_from_json(o.type, <<"LIMIT", "MARKET">>),
                     price |-> IF o.price.kind = "absent" THEN 0 ELSE o.price.n,
                     quantity |-> o.quantity.n,
                     idempotency_key |-> ""])

\* cmd.value(key, "") throws: cmd is no object, or the value is no string.
value_throws(l, j) == l.form # "object" \/ j.kind \notin {"absent", "string"}

\* handle() up to the call it makes: the exception it catches, or the
\* command it dispatches to.
Dispatch(l) ==
    IF l.form = "garbage" THEN "PARSE_ERROR"
    ELSE IF value_throws(l, l.cmd) \/ value_throws(l, l.req_id) THEN "PARSE_ERROR"
    ELSE IF l.cmd.s = "place_order"
    THEN IF get_Order_throws(l.order) THEN "PARSE_ERROR" ELSE "place_order"
    ELSE IF l.cmd.s = "cancel_order"
    THEN IF number_throws(l.order_id) THEN "PARSE_ERROR" ELSE "cancel_order"
    ELSE IF l.cmd.s = "get_order"
    THEN IF number_throws(l.order_id) THEN "PARSE_ERROR" ELSE "get_order"
    ELSE IF l.cmd.s = "health" THEN "health"
    ELSE "UNKNOWN_COMMAND"

\* out["req_id"] was assigned before anything was thrown.
HasReqId(l) ==
    /\ l.form # "garbage"
    /\ ~value_throws(l, l.cmd)
    /\ ~value_throws(l, l.req_id)

\* The response handle() returns for a line, res being the result of the
\* call of the engine it made.
Response(l, res, ords) ==
    LET d == Dispatch(l)
        success == CASE d \in {"PARSE_ERROR", "UNKNOWN_COMMAND"} -> FALSE
                     [] d \in {"place_order", "cancel_order"} -> res.success
                     [] d = "get_order" -> l.order_id.n \in DOMAIN ords
                     [] OTHER -> TRUE
    IN [has_req_id |-> HasReqId(l),
        req_id |-> IF HasReqId(l) THEN l.req_id.s ELSE "",
        success |-> success,
        code |-> CASE success -> "NONE"
                   [] d \in {"PARSE_ERROR", "UNKNOWN_COMMAND"} -> d
                   [] d = "get_order" -> "ORDER_NOT_FOUND"
                   [] OTHER -> res.error_code]

\* handle() gives its response back when the call it made has started.
CallStarted == r.op # "none"

\* handle() gives its response back when the call it made has returned.
CallReturned == pc = "idle" /\ r.op # "none"

\* main reads the next line that is not empty.
getline(l) ==
    /\ pc = "idle"
    /\ line = NoLine
    /\ Len(cout) < MaxLines
    /\ line' = l
    /\ r' = NoResult
    /\ UNCHANGED <<orders, books, trades, idempotency_keys, next_order_id,
                   next_trade_id, stats, sequence, log, pc, raw>>
    /\ UNCHANGED <<risk_in, risk_out, restarts, prior, recovers, snapshots, cout,
                   query, answer, append_vars>>

\* handle() calls engine_.place_order.
handle_place_order ==
    /\ line # NoLine
    /\ Dispatch(line) = "place_order"
    /\ r.op = "none"
    /\ place_order_begin(get_Order(line.order))

\* handle() calls engine_.cancel_order.
handle_cancel_order ==
    /\ line # NoLine
    /\ Dispatch(line) = "cancel_order"
    /\ r.op = "none"
    /\ cancel_order(line.order_id.n)

\* handle() returns and main writes the response and flushes.
respond ==
    /\ line # NoLine
    /\ Dispatch(line) \in {"place_order", "cancel_order"} => CallReturned
    /\ cout' = Append(cout, [request |-> Len(cout) + 1,
                             events |-> Len(log),
                             response |-> Response(line, r, orders)])
    /\ line' = NoLine
    /\ UNCHANGED <<risk_in, risk_out, restarts, prior, recovers, snapshots,
                   query, answer, append_vars>>
    /\ UNCHANGED engine_vars

\* ------------------------------------------------------------------------
\* Calls that read the engine
\* ------------------------------------------------------------------------
Reverse(s) == [k \in 1..Len(s) |-> s[Len(s) + 1 - k]]

\* The loop of get_trades: from the newest trade to the oldest, while fewer
\* than limit trades were collected, a trade of the symbol is collected.
RECURSIVE get_trades_scan(_, _, _, _, _)
get_trades_scan(ts, symbol, limit, it, out) ==
    IF it = 0 \/ Len(out) >= limit
    THEN out
    ELSE get_trades_scan(ts, symbol, limit, it - 1,
                         IF ts[it].symbol = symbol THEN Append(out, ts[it]) ELSE out)

\* get_trades without the reversal at its end.
get_trades_newest_first(ts, symbol, limit) ==
    IF limit = 0 THEN <<>> ELSE get_trades_scan(ts, symbol, limit, Len(ts), <<>>)

get_trades(ts, symbol, limit) ==
    IF limit = 0
    THEN <<>>
    ELSE Reverse(get_trades_scan(ts, symbol, limit, Len(ts), <<>>))

\* A caller reads the recent trades of a symbol.
get_trades_call ==
    /\ query.op = "get_trades"
    /\ answer = <<>>
    /\ answer' = <<get_trades(query.trades, query.symbol, query.limit)>>
    /\ UNCHANGED <<risk_in, risk_out, restarts, prior, recovers, snapshots, line,
                   cout, query, append_vars>>
    /\ UNCHANGED engine_vars

\* The loop of get_bid_levels and get_ask_levels over the price levels that
\* are left, in the order of the map: it stops when depth levels were
\* collected, and a level is the price, the sum of the remaining quantities
\* of the orders the level points to, and their number.
RECURSIVE get_levels_scan(_, _, _, _, _)
get_levels_scan(side_levels, ords, depth, left, compare) ==
    IF left = {} \/ depth <= 0
    THEN <<>>
    ELSE LET price == IF compare = "greater" THEN SetMax(left) ELSE SetMin(left)
             v == side_levels[price]
             qs == [k \in 1..Len(v) |-> ords[v[k]].remaining_qty]
             lvl == [price |-> price, quantity |-> SumSeq(qs), order_count |-> Len(v)]
         IN <<lvl>> \o get_levels_scan(side_levels, ords, depth - 1, left \ {price}, compare)

\* get_bid_levels that walks the bids from the lowest price.
get_bid_levels_ascending(book, ords, depth) ==
    get_levels_scan(book.bids, ords, depth, DOMAIN book.bids, "less")

\* bids_ is ordered by std::greater.
get_bid_levels(book, ords, depth) ==
    get_levels_scan(book.bids, ords, depth, DOMAIN book.bids, "greater")

\* asks_ is ordered by std::less.
get_ask_levels(book, ords, depth) ==
    get_levels_scan(book.asks, ords, depth, DOMAIN book.asks, "less")

\* A caller reads the levels of the book of a symbol (get_book).
get_levels_call(symbol, depth) ==
    /\ pc = "idle"
    /\ query = NoQuery
    /\ symbol \in DOMAIN books
    /\ query' = [op |-> "get_book", symbol |-> symbol, depth |-> depth]
    /\ answer' = <<[bids |-> get_bid_levels(books[symbol], orders, depth),
                    asks |-> get_ask_levels(books[symbol], orders, depth)]>>
    /\ UNCHANGED <<risk_in, risk_out, restarts, prior, recovers, snapshots, line,
                   cout, append_vars>>
    /\ UNCHANGED engine_vars

\* The caller has the levels and the engine goes on.
get_levels_return ==
    /\ query.op = "get_book"
    /\ query' = NoQuery
    /\ answer' = <<>>
    /\ UNCHANGED <<risk_in, risk_out, restarts, prior, recovers, snapshots, line,
                   cout, append_vars>>
    /\ UNCHANGED engine_vars

\* ------------------------------------------------------------------------
\* EventLog::append called by several threads
\* ------------------------------------------------------------------------
\* What a thread writes to file_ for the event of its next call: the text
\* j.dump() gives, and the end of the line.
Chunk(t, part) == [thread |-> t, event |-> thread[t].calls + 1, part |-> part]

\* A step of a thread in append leaves the engine as it is.
EngineUntouched ==
    /\ UNCHANGED <<risk_in, risk_out, restarts, prior, recovers, snapshots, line,
                   cout, query, answer>>
    /\ UNCHANGED engine_vars

\* A constructor of lock_guard that takes the mutex whoever holds it.
lock_free(t) == TRUE

\* The constructor of lock_guard returns when no thread holds the mutex.
lock(t) == mutex_ = 0

\* append is called: if (!enabled_) return;
append_call(t) ==
    /\ thread[t].pc = "call"
    /\ thread[t].calls < MaxAppends
    /\ thread' = IF enabled_
                 THEN [thread EXCEPT ![t].pc = "lock"]
                 ELSE [thread EXCEPT ![t].calls = @ + 1]
    /\ UNCHANGED <<enabled_, mutex_, buffer, file_>>
    /\ EngineUntouched

\* std::lock_guard<std::mutex> lock(mutex_);
append_lock(t) ==
    /\ thread[t].pc = "lock"
    /\ lock(t)
    /\ mutex_' = t
    /\ thread' = [thread EXCEPT ![t].pc = "dump"]
    /\ UNCHANGED <<enabled_, buffer, file_>>
    /\ EngineUntouched

\* file_ << j.dump()
append_dump(t) ==
    /\ thread[t].pc = "dump"
    /\ buffer' = Append(buffer, Chunk(t, "dump"))
    /\ thread' = [thread EXCEPT ![t].pc = "newline"]
    /\ UNCHANGED <<enabled_, mutex_, file_>>
    /\ EngineUntouched

\* << "\n"
append_newline(t) ==
    /\ thread[t].pc = "newline"
    /\ buffer' = Append(buffer, Chunk(t, "newline"))
    /\ thread' = [thread EXCEPT ![t].pc = "flush"]
    /\ UNCHANGED <<enabled_, mutex_, file_>>
    /\ EngineUntouched

\* file_.flush();
append_flush(t) ==
    /\ thread[t].pc = "flush"
    /\ file_' = file_ \o buffer
    /\ buffer' = <<>>
    /\ thread' = [thread EXCEPT ![t].pc = "unlock"]
    /\ UNCHANGED <<enabled_, mutex_>>
    /\ EngineUntouched

\* The destructor of the lock_guard at the end of append.
append_unlock(t) ==
    /\ thread[t].pc = "unlock"
    /\ mutex_' = 0
    /\ thread' = [thread EXCEPT ![t].pc = "call", ![t].calls = @ + 1]
    /\ UNCHANGED <<enabled_, buffer, file_>>
    /\ EngineUntouched

\* ------------------------------------------------------------------------
\* place_order, match and cancel_order, statement by statement around their
\* calls of log_event
\* ------------------------------------------------------------------------
\* place_order up to the statement before log_event: idempotency check, risk
\* check, id assignment, insertion of the key, orders_[order.id] = ptr.
place_order_store(order) ==
    /\ pc = "idle"
    /\ UNCHANGED other_vars
    /\ IF IsDuplicate(order, idempotency_keys)
       THEN /\ stats.total_rejects < MaxRejects
            /\ r' = Rejected("DUPLICATE_IDEMPOTENCY_KEY")
            /\ stats' = [stats EXCEPT !.total_rejects = @ + 1]
            /\ UNCHANGED <<orders, books, trades, idempotency_keys, next_order_id,
                           next_trade_id, sequence, log, pc, raw>>
       ELSE IF check_order(order) # "NONE"
       THEN /\ stats.total_rejects < MaxRejects
            /\ r' = Rejected(check_order(order))
            /\ stats' = [stats EXCEPT !.total_rejects = @ + 1]
            /\ UNCHANGED <<orders, books, trades, idempotency_keys, next_order_id,
                           next_trade_id, sequence, log, pc, raw>>
       ELSE LET o == [id |-> next_order_id,
                      account_id |-> order.account_id,
                      symbol |-> order.symbol,
                      side |-> order.side,
                      type |-> order.type,
                      price |-> order.price,
                      quantity |-> order.quantity,
                      remaining_qty |-> order.quantity,
                      status |-> "NEW",
                      idempotency_key |-> order.idempotency_key]
            IN /\ Logged(log, "ORDER_PLACED") < MaxOrders
               /\ next_order_id' = NextId(next_order_id)
               /\ idempotency_keys' = InsertKey(idempotency_keys, order)
               /\ orders' = [i \in DOMAIN orders \cup {o.id} |->
                               IF i = o.id THEN o ELSE orders[i]]
               /\ raw' = o.id
               /\ r' = [op |-> "place_order", success |-> FALSE,
                        error_code |-> "NONE", order |-> DefaultOrder,
                        trades |-> <<>>]
               /\ pc' = "log_placed"
               /\ UNCHANGED <<books, trades, next_trade_id, stats, sequence, log>>

\* log_event(ORDER_PLACED, *raw); stats_.total_orders++; match() is entered
\* and fetches the book.
place_order_log ==
    /\ pc = "log_placed"
    /\ log' = LogAppend(log, sequence, "ORDER_PLACED", orders[raw])
    /\ sequence' = sequence + 1
    /\ stats' = [stats EXCEPT !.total_orders = @ + 1]
    /\ books' = get_or_create_book(books, orders[raw].symbol)
    /\ pc' = "match"
    /\ UNCHANGED <<orders, trades, idempotency_keys, next_order_id, next_trade_id,
                   raw, r>>
    /\ UNCHANGED other_vars

\* A pass of the loop of match() up to the statement before log_event: the
\* trade is built and pushed to trades and trades_.
match_record ==
    /\ pc = "match"
    /\ CanTrade(orders[raw], Resting(books[orders[raw].symbol], orders[raw]), orders)
    /\ LET incoming == orders[raw]
           best == orders[Head(Resting(books[incoming.symbol], incoming))]
           qty == Min2(incoming.remaining_qty, best.remaining_qty)
           t == MakeTrade(incoming, best, qty, next_trade_id)
       IN /\ next_trade_id' = NextId(next_trade_id)
          /\ trades' = Append(trades, t)
          /\ r' = [r EXCEPT !.trades = Append(@, t)]
    /\ pc' = "log_trade"
    /\ UNCHANGED <<orders, books, idempotency_keys, next_order_id, stats, sequence,
                   log, raw>>
    /\ UNCHANGED other_vars

\* log_event(TRADE_EXECUTED, t); stats_.total_trades++;
match_log ==
    /\ pc = "log_trade"
    /\ log' = LogAppend(log, sequence, "TRADE_EXECUTED", trades[Len(trades)])
    /\ sequence' = sequence + 1
    /\ stats' = [stats EXCEPT !.total_trades = @ + 1]
    /\ pc' = "reduce"
    /\ UNCHANGED <<orders, books, trades, idempotency_keys, next_order_id,
                   next_trade_id, raw, r>>
    /\ UNCHANGED other_vars

\* The end of the pass: the remaining quantities are reduced.
match_reduce ==
    /\ pc = "reduce"
    /\ LET incoming == orders[raw]
           book == books[incoming.symbol]
           best == orders[Head(Resting(book, incoming))]
           qty == trades[Len(trades)].quantity
           o1 == [orders EXCEPT ![raw].remaining_qty = @ - qty]
           u == update_order_qty(book, o1, best.id, best.remaining_qty - qty)
       IN /\ orders' = u.orders
          /\ books' = [books EXCEPT ![incoming.symbol] = u.book]
    /\ pc' = "match"
    /\ UNCHANGED <<trades, idempotency_keys, next_order_id, next_trade_id, stats,
                   sequence, log, raw, r>>
    /\ UNCHANGED other_vars

\* cancel_order up to the statement before log_event: the order is looked
\* up, removed from its book and marked CANCELLED.
cancel_order_remove(order_id) ==
    /\ pc = "idle"
    /\ IF order_id \notin DOMAIN orders
       THEN /\ r' = [op |-> "cancel_order", success |-> FALSE,
                     error_code |-> "ORDER_NOT_FOUND", order |-> DefaultOrder,
                     trades |-> <<>>]
            /\ UNCHANGED <<orders, books, pc, raw>>
       ELSE IF orders[order_id].status \in {"FILLED", "CANCELLED", "REJECTED"}
       THEN /\ r' = [op |-> "cancel_order", success |-> FALSE,
                     error_code |-> "ORDER_NOT_FOUND",
                     order |-> orders[order_id], trades |-> <<>>]
            /\ UNCHANGED <<orders, books, pc, raw>>
       ELSE LET ord == orders[order_id]
            IN /\ Logged(log, "ORDER_CANCELLED") < MaxCancels
               /\ books' =
                     IF ord.symbol \in DOMAIN books
                     THEN [books EXCEPT ![ord.symbol] =
                                          remove_order(@, orders, order_id)]
                     ELSE books
               /\ orders' = [orders EXCEPT ![order_id].status = "CANCELLED"]
               /\ raw' = order_id
               /\ r' = [op |-> "cancel_order", success |-> FALSE,
                        error_code |-> "ORDER_NOT_FOUND", order |-> DefaultOrder,
                        trades |-> <<>>]
               /\ pc' = "log_cancelled"
    /\ UNCHANGED <<trades, idempotency_keys, next_order_id, next_trade_id, stats,
                   sequence, log>>
    /\ UNCHANGED other_vars

\* log_event(ORDER_CANCELLED, {order_id}); stats_.total_cancels++; the
\* result is filled in and returned.
cancel_order_log ==
    /\ pc = "log_cancelled"
    /\ log' = LogAppend(log, sequence, "ORDER_CANCELLED", [order_id |-> raw])
    /\ sequence' = sequence + 1
    /\ stats' = [stats EXCEPT !.total_cancels = @ + 1]
    /\ r' = [r EXCEPT !.success = TRUE, !.order = orders[raw]]
    /\ pc' = "idle"
    /\ UNCHANGED <<orders, books, trades, idempotency_keys, next_order_id,
                   next_trade_id, raw>>
    /\ UNCHANGED other_vars

\* Some level of some book holds a pointer to a destroyed order.
HasDangling(bks) ==
    \E sym \in DOMAIN bks :
        \E p \in DOMAIN bks[sym].bids \cup DOMAIN bks[sym].asks :
            \E k \in 1..MaxOrders :
                \/ /\ p \in DOMAIN bks[sym].bids
                   /\ k <= Len(bks[sym].bids[p])
                   /\ bks[sym].bids[p][k] = Dangling
                \/ /\ p \in DOMAIN bks[sym].asks
                   /\ k <= Len(bks[sym].asks[p])
                   /\ bks[sym].asks[p][k] = Dangling

\* A command reads a destroyed order through a book: what the engine does
\* from here on is undefined and is not followed further.
use_after_free ==
    /\ pc = "idle"
    /\ HasDangling(books)
    /\ pc' = "undefined"
    /\ r' = [NoResult EXCEPT !.op = "undefined"]
    /\ UNCHANGED <<orders, books, trades, idempotency_keys, next_order_id,
                   next_trade_id, stats, sequence, log, raw>>
    /\ UNCHANGED other_vars

Next ==
    \/ \E order \in OrderInputs : place_order_begin(order)
    \/ match
    \/ place_order_end
    \/ \E order_id \in 1..next_order_id : cancel_order(order_id)

Spec == Init /\ [][Next]_vars

\* ------------------------------------------------------------------------
\* A RiskChecker on its own
\* ------------------------------------------------------------------------
\* Orders around every limit of the checks, in raw units.
RiskOrderInputs ==
    [symbol : {"BTC-USD", "DOGE-USD"},
     type : {"LIMIT", "MARKET"},
     price : {I64Neg(0, 0, 1), I64(0, 0, 0), I64(0, 0, 1), I64(0, 10000, 0),
              I64(0, 10000, 10000050), I64(0, 10000, 10000051)},
     quantity : {I64Neg(0, 0, 100), I64(0, 0, 0), I64(0, 0, 100), I64(0, 0, 101),
                 I64(0, 999, 99000005), I64(0, 1000, 0), I64(0, 1000, 1)}]

\* The default limits, the limits of the RiskChecker tests and limits with
\* another symbol and a small notional.
RiskLimitsInputs ==
    {DefaultLimits,
     [DefaultLimits EXCEPT !.max_order_size = I64(0, 0, 100)],
     [max_order_size |-> I64(0, 1000, 0), max_notional |-> I64(0, 0, 5),
      allowed_symbols |-> {"DOGE-USD"}]}

InitRisk ==
    /\ EngineInit
    /\ log = <<>>
    /\ restarts = 0
    /\ prior = NoPrior
    /\ recovers = 0
    /\ snapshots = <<>>
    /\ line = NoLine
    /\ cout = <<>>
    /\ query = NoQuery
    /\ answer = <<>>
    /\ AppendInit
    /\ risk_in \in [order : RiskOrderInputs, limits : RiskLimitsInputs,
                     mant : LongDoubleDigits]
    /\ risk_out = "unset"

RiskCheck ==
    /\ risk_out = "unset"
    /\ risk_out' = RiskChecker_check_order(risk_in.order, risk_in.limits, risk_in.mant)
    /\ UNCHANGED <<risk_in, restarts, prior, recovers, snapshots, line, cout,
                   query, answer, append_vars>>
    /\ UNCHANGED engine_vars

NextRisk == RiskCheck

SpecRisk == InitRisk /\ [][NextRisk]_vars

\* ------------------------------------------------------------------------
\* The engine, stopped and started again on its log file
\* ------------------------------------------------------------------------
\* The commands of an engine that may be started again.
RecoveryInputs ==
    {o \in LimitInputs : o.price = 1 \/ (o.account_id = "a2" /\ o.quantity = 1)}
        \cup MarketInputs \cup KeyedInputs

NextRecovery ==
    \/ \E order \in RecoveryInputs : place_order_begin(order)
    \/ match
    \/ place_order_end
    \/ \E order_id \in 0..next_order_id : cancel_order(order_id)
    \/ restart

SpecRecovery == Init /\ [][NextRecovery]_vars

\* ------------------------------------------------------------------------
\* The engine with a snapshot directory
\* ------------------------------------------------------------------------
\* The commands of an engine of which snapshots are saved.
SnapshotInputs ==
    {o \in LimitInputs : o.price = 1} \cup {o \in MarketInputs : o.account_id = "a2"}

NextSnapshot ==
    \/ /\ ~HasDangling(books)
       /\ \/ \E order \in SnapshotInputs : place_order_begin(order)
          \/ match
          \/ place_order_end
          \/ \E order_id \in 0..next_order_id : cancel_order(order_id)
    \/ save_snapshot
    \/ restart
    \/ use_after_free

SpecSnapshot == Init /\ [][NextSnapshot]_vars

\* ------------------------------------------------------------------------
\* The command loop
\* ------------------------------------------------------------------------
\* The order object of a place_order request.
OrderObject(account_id, side, type, price, quantity) ==
    [kind |-> "object", account_id |-> account_id, symbol |-> Str("BTC-USD"),
     side |-> side, type |-> type, price |-> price, quantity |-> quantity]

\* A request object.
Request(cmd, req_id, order, order_id) ==
    [form |-> "object", cmd |-> cmd, req_id |-> req_id, order |-> order,
     order_id |-> order_id]

\* Request lines: valid requests, text that is no JSON, JSON that is no
\* object, unknown commands, and requests with a key that is absent or has a
\* value of another type.
RequestLines ==
    {Request(Str("place_order"), Str("q"),
             OrderObject(Str(a), Str(sd), Str("LIMIT"), Num(1), Num(1)), Absent) :
        a \in Accounts, sd \in {"BUY", "SELL"}}
    \cup
    {Request(Str("place_order"), Str("q"),
             OrderObject(Str("a1"), Str("SELL"), Str("MARKET"), Absent, Num(1)), Absent),
     Request(Str("place_order"), Str("q"),
             OrderObject(Str("a2"), Num(7), Str("LIMIT"), Num(1), Num(1)), Absent),
     Request(Str("place_order"), Str("q"),
             OrderObject(Str("a2"), Str("sell"), Str("LIMIT"), Num(1), Num(1)), Absent),
     Request(Str("place_order"), Str("q"),
             OrderObject(Str("a1"), Absent, Str("LIMIT"), Num(1), Num(1)), Absent),
     Request(Str("place_order"), Str("q"),
             OrderObject(Str("a1"), Str("BUY"), Str("LIMIT"), Num(1), Str("1")), Absent),
     Request(Str("place_order"), Str("q"), NoOrderObject, Absent),
     Request(Str("cancel_order"), Str("q"), NoOrderObject, Num(1)),
     Request(Str("cancel_order"), Str("q"), NoOrderObject, Str("1")),
     Request(Str("cancel_order"), Absent, NoOrderObject, Absent),
     Request(Str("get_order"), Str("q"), NoOrderObject, Num(1)),
     Request(Str("health"), Str("q"), NoOrderObject, Absent),
     Request(Str("frobnicate"), Str("q"), NoOrderObject, Absent),
     Request(Absent, Str("q"), NoOrderObject, Absent),
     Request(Num(7), Str("q"), NoOrderObject, Absent),
     Request(Str("health"), Num(7), NoOrderObject, Absent),
     [NoLine EXCEPT !.form = "garbage"],
     [NoLine EXCEPT !.form = "array"]}

NextDriver ==
    \/ \E l \in RequestLines : getline(l)
    \/ handle_place_order
    \/ match
    \/ place_order_end
    \/ handle_cancel_order
    \/ respond

SpecDriver == Init /\ [][NextDriver]_vars

\* ------------------------------------------------------------------------
\* The engine on which recover() is called again
\* ------------------------------------------------------------------------
NextRecoverAgain ==
    \/ \E order \in SnapshotInputs : place_order_begin(order)
    \/ match
    \/ place_order_end
    \/ \E order_id \in 0..next_order_id : cancel_order(order_id)
    \/ restart
    \/ recover_call

SpecRecoverAgain == Init /\ [][NextRecoverAgain]_vars

\* ------------------------------------------------------------------------
\* get_trades on a trade list
\* ------------------------------------------------------------------------
\* The trade lists of an engine that executed up to MaxTrades trades on two
\* symbols: trade ids count from 1 in the order of execution.
TradeLists ==
    UNION {{[k \in 1..n |->
                [id |-> k, buy_order_id |-> 2 * k - 1, sell_order_id |-> 2 * k,
                 symbol |-> f[k], price |-> 1, quantity |-> 1,
                 buyer_account_id |-> "a1", seller_account_id |-> "a2"]] :
             f \in [1..n -> {"BTC-USD", "ETH-USD"}]} : n \in 0..MaxTrades}

InitTrades ==
    /\ EngineInit
    /\ log = <<>>
    /\ risk_in = NoCheck
    /\ risk_out = "unset"
    /\ restarts = 0
    /\ prior = NoPrior
    /\ recovers = 0
    /\ snapshots = <<>>
    /\ line = NoLine
    /\ cout = <<>>
    /\ query \in [op : {"get_trades"}, trades : TradeLists,
                  symbol : {"BTC-USD", "ETH-USD", "DOGE-USD"}, limit : 0..MaxLimit]
    /\ answer = <<>>
    /\ AppendInit

NextTrades == get_trades_call

SpecTrades == InitTrades /\ [][NextTrades]_vars

\* ------------------------------------------------------------------------
\* The engine whose book levels are read between commands
\* ------------------------------------------------------------------------
\* Limit orders of one buyer and one seller.
LevelInputs ==
    {o \in LimitInputs : (o.side = "BUY" /\ o.account_id = "a1")
                            \/ (o.side = "SELL" /\ o.account_id = "a2")}

NextLevels ==
    \/ query = NoQuery /\ \E order \in LevelInputs : place_order_begin(order)
    \/ match
    \/ place_order_end
    \/ query = NoQuery /\ \E order_id \in 1..next_order_id : cancel_order(order_id)
    \/ \E depth \in 0..MaxDepth : get_levels_call("BTC-USD", depth)
    \/ get_levels_return

SpecLevels == Init /\ [][NextLevels]_vars

\* ------------------------------------------------------------------------
\* Threads that append to one EventLog
\* ------------------------------------------------------------------------
InitAppend ==
    /\ EngineInit
    /\ log = <<>>
    /\ risk_in = NoCheck
    /\ risk_out = "unset"
    /\ restarts = 0
    /\ prior = NoPrior
    /\ recovers = 0
    /\ snapshots = <<>>
    /\ line = NoLine
    /\ cout = <<>>
    /\ query = NoQuery
    /\ answer = <<>>
    /\ thread = [t \in Threads |-> [pc |-> "call", calls |-> 0]]
    /\ enabled_ \in BOOLEAN
    /\ mutex_ = 0
    /\ buffer = <<>>
    /\ file_ = <<>>

NextAppend ==
    \/ \E t \in Threads : append_call(t)
    \/ \E t \in Threads : append_lock(t)
    \/ \E t \in Threads : append_dump(t)
    \/ \E t \in Threads : append_newline(t)
    \/ \E t \in Threads : append_flush(t)
    \/ \E t \in Threads : append_unlock(t)

SpecAppend == InitAppend /\ [][NextAppend]_vars

\* ------------------------------------------------------------------------
\* The engine, statement by statement around log_event
\* ------------------------------------------------------------------------
NextStatements ==
    \/ \E order \in SnapshotInputs \cup KeyedInputs : place_order_store(order)
    \/ place_order_log
    \/ match_record
    \/ match_log
    \/ match_reduce
    \/ place_order_end
    \/ \E order_id \in 1..next_order_id : cancel_order_remove(order_id)
    \/ cancel_order_log

SpecStatements == Init /\ [][NextStatements]_vars

\* ------------------------------------------------------------------------
\* Properties
\* ------------------------------------------------------------------------
Idle == pc = "idle"

\* The ids a book holds in the price levels of one side.
LevelIds(levels) ==
    UNION {{levels[p][i] : i \in 1..Len(levels[p])} : p \in DOMAIN levels}

RECURSIVE SumQty(_)
SumQty(ts) == IF ts = <<>> THEN 0 ELSE Head(ts).quantity + SumQty(Tail(ts))

\* The resting and the incoming order of a trade: an order rests before the
\* order that trades against it is placed, so it has the smaller id.
RestingOf(t) ==
    IF t.buy_order_id < t.sell_order_id THEN t.buy_order_id ELSE t.sell_order_id

IncomingOf(t) ==
    IF t.buy_order_id < t.sell_order_id THEN t.sell_order_id ELSE t.buy_order_id

\* C1: after every completed place_order or cancel_order, every bid price of
\* every symbol's book is below every ask price of that book (best_bid <
\* best_ask whenever both exist).
C1_BookNeverCrossed ==
    Idle => \A s \in DOMAIN books :
                \A b \in DOMAIN books[s].bids, a \in DOMAIN books[s].asks : b < a

\* A completed call leaves a book with both a bid and an ask, after an order
\* was refused because it would have rested crossed.
C1_Witness ==
    /\ Idle
    /\ \E s \in DOMAIN books : DOMAIN books[s].bids # {} /\ DOMAIN books[s].asks # {}
    /\ stats.total_rejects > 0
    /\ \E i \in DOMAIN orders : orders[i].status = "REJECTED" /\ orders[i].type = "LIMIT"

\* The ids on the side of the book of its symbol that the incoming order is
\* matched against, by the book's id index.
OppositeIds(incoming) ==
    IF incoming.side = "BUY"
    THEN books[incoming.symbol].ask_orders
    ELSE books[incoming.symbol].bid_orders

\* A step of the matching loop that executes a trade.
TradeStep == pc = "match" /\ Len(trades') = Len(trades) + 1

\* C2: price-time priority.  For every trade, the resting counterparty is, at
\* the moment of the trade, on the side opposite to the incoming order, no
\* other order of that side has a better price (lower ask for a BUY, higher
\* bid for a SELL), and among the orders at its price it is the one added
\* first (orders join a book in the order of their ids); if the trade fills
\* it only partially it is still the head of the best level afterwards.
C2_PriceTimePriority ==
    [][TradeStep =>
        LET t == trades'[Len(trades')]
            incoming == orders[raw]
            rid == IF incoming.side = "BUY" THEN t.sell_order_id ELSE t.buy_order_id
        IN /\ rid \in OppositeIds(incoming)
           /\ \A j \in OppositeIds(incoming) :
                 /\ incoming.side = "BUY" => orders[rid].price <= orders[j].price
                 /\ incoming.side = "SELL" => orders[rid].price >= orders[j].price
                 /\ orders[j].price = orders[rid].price => rid <= j
           /\ orders'[rid].remaining_qty > 0 =>
                 Head(Resting(books'[incoming.symbol], incoming)) = rid
    ]_vars

\* Inside the matching loop, a trade has just filled part of the head of a
\* level that holds a second, later order.
C2_Witness ==
    /\ pc = "match"
    /\ r.trades # <<>>
    /\ LET t == r.trades[Len(r.trades)]
           rid == RestingOf(t)
           level == Resting(books[orders[raw].symbol], orders[raw])
       IN /\ orders[rid].status = "PARTIAL"
          /\ Len(level) >= 2
          /\ Head(level) = rid

\* C3: maker-price rule.  Every trade's price is the price of the resting
\* order, and a LIMIT incoming order never trades at a price worse than its
\* limit (at most its limit for a BUY, at least its limit for a SELL).
C3_MakerPrice ==
    \A k \in 1..Len(trades) :
        LET t == trades[k]
            incoming == orders[IncomingOf(t)]
        IN /\ t.price = orders[RestingOf(t)].price
           /\ incoming.type = "LIMIT" /\ incoming.side = "BUY" =>
                 t.price <= incoming.price
           /\ incoming.type = "LIMIT" /\ incoming.side = "SELL" =>
                 t.price >= incoming.price

\* A LIMIT BUY traded below its limit, and one call traded at two prices.
C3_Witness ==
    /\ \E k \in 1..Len(trades) :
          LET t == trades[k]
          IN /\ IncomingOf(t) = t.buy_order_id
             /\ orders[t.buy_order_id].type = "LIMIT"
             /\ t.price < orders[t.buy_order_id].price
    /\ \E k \in 1..Len(trades) - 1 :
          /\ IncomingOf(trades[k]) = IncomingOf(trades[k + 1])
          /\ trades[k].price # trades[k + 1].price

\* C4: self-trade freedom.  No trade has the same account as buyer and
\* seller; and when the head of the best level opposite to the incoming order
\* belongs to the incoming order's account, the step the matching loop takes
\* executes no trade and ends the loop.
C4_SelfTradeFreedom ==
    /\ [](\A k \in 1..Len(trades) :
            /\ trades[k].buyer_account_id # trades[k].seller_account_id
            /\ orders[trades[k].buy_order_id].account_id
                  # orders[trades[k].sell_order_id].account_id)
    /\ [][(/\ pc = "match"
            /\ Resting(books[orders[raw].symbol], orders[raw]) # <<>>
            /\ orders[Head(Resting(books[orders[raw].symbol], orders[raw]))].account_id
                  = orders[raw].account_id)
           => (trades' = trades /\ pc' = "idle")]_vars

\* A call ended SELF_TRADE_PREVENTED without a trade although an order of
\* another account rests behind the account's own order at the same price.
C4_Witness ==
    /\ Idle
    /\ r.op = "place_order"
    /\ r.error_code = "SELF_TRADE_PREVENTED"
    /\ r.trades = <<>>
    /\ LET level == Resting(books[r.order.symbol], r.order)
       IN /\ Len(level) >= 2
          /\ orders[level[1]].account_id = r.order.account_id
          /\ orders[level[2]].account_id # r.order.account_id

\* The trades that name order id as buy order or sell order.
TradesOf(id) ==
    SelectSeq(trades, LAMBDA t : t.buy_order_id = id \/ t.sell_order_id = id)

\* C5: conservation.  After every completed place_order or cancel_order,
\* every order's quantity is its remaining quantity plus the quantities of the
\* trades that name it.
C5_Conservation ==
    Idle => \A id \in DOMAIN orders :
                orders[id].quantity
                    = orders[id].remaining_qty + SumQty(TradesOf(id))

\* A completed call leaves an order that took part in two trades and a
\* resting order that is partially filled.
C5_Witness ==
    /\ Idle
    /\ \E id \in DOMAIN orders : Len(TradesOf(id)) >= 2
    /\ \E id \in DOMAIN orders :
          /\ orders[id].status = "PARTIAL"
          /\ 0 < orders[id].remaining_qty
          /\ orders[id].remaining_qty < orders[id].quantity

\* C6: in every state, the states inside the matching loop included, every
\* order the engine holds has 0 <= remaining <= quantity.
C6_RemainingInRange ==
    \A id \in DOMAIN orders :
        /\ 0 <= orders[id].remaining_qty
        /\ orders[id].remaining_qty <= orders[id].quantity

\* Inside the matching loop, after a trade: the incoming order is partly
\* filled and the resting order it traded with is filled.
C6_Witness ==
    /\ pc = "match"
    /\ r.trades # <<>>
    /\ 0 < orders[raw].remaining_qty
    /\ orders[raw].remaining_qty < orders[raw].quantity
    /\ orders[RestingOf(r.trades[Len(r.trades)])].remaining_qty = 0

\* The trades of one symbol, and the quantity of the accepted orders of one
\* symbol and side.
TradedQty(symbol) == SumQty(SelectSeq(trades, LAMBDA t : t.symbol = symbol))

RECURSIVE PlacedQty(_, _, _)
PlacedQty(symbol, side, ids) ==
    IF ids = {} THEN 0
    ELSE LET id == CHOOSE i \in ids : TRUE
             q == IF orders[id].symbol = symbol /\ orders[id].side = side
                  THEN orders[id].quantity ELSE 0
         IN q + PlacedQty(symbol, side, ids \ {id})

\* C7: trade bounds.  For every symbol, in every state, the quantities of
\* the trades of the symbol sum to at most the total quantity of the accepted
\* BUY orders and to at most the total quantity of the accepted SELL orders
\* of the symbol.
C7_TradeBounds ==
    \A symbol \in allowed_symbols :
        /\ TradedQty(symbol) <= PlacedQty(symbol, "BUY", DOMAIN orders)
        /\ TradedQty(symbol) <= PlacedQty(symbol, "SELL", DOMAIN orders)

\* Orders were accepted on both symbols; on one of them the trades exhaust
\* the BUY quantity while SELL quantity is left over.
C7_Witness ==
    /\ \A symbol \in allowed_symbols :
          PlacedQty(symbol, "BUY", DOMAIN orders)
              + PlacedQty(symbol, "SELL", DOMAIN orders) > 0
    /\ \E symbol \in allowed_symbols :
          /\ TradedQty(symbol) > 0
          /\ TradedQty(symbol) = PlacedQty(symbol, "BUY", DOMAIN orders)
          /\ TradedQty(symbol) < PlacedQty(symbol, "SELL", DOMAIN orders)

\* The trade of a TRADE_EXECUTED line of the event log.
LoggedTrades == SelectSeq(log, LAMBDA e : e.type = "TRADE_EXECUTED")

\* C8: every trade emitted (in the trade list, in the result of place_order,
\* in a TRADE_EXECUTED event) has quantity > 0, and every order on a book has
\* remaining > 0 in every state in which the matching loop can read it.
C8_PositiveTrades ==
    /\ \A k \in 1..Len(trades) : trades[k].quantity > 0
    /\ \A k \in 1..Len(r.trades) : r.trades[k].quantity > 0
    /\ \A k \in 1..Len(LoggedTrades) : LoggedTrades[k].payload.quantity > 0
    /\ \A s \in DOMAIN books :
          \A id \in LevelIds(books[s].bids) \cup LevelIds(books[s].asks)
                    \cup books[s].bid_orders \cup books[s].ask_orders :
              orders[id].remaining_qty > 0

\* Inside the matching loop, after a trade that filled the head of a level,
\* the incoming order has quantity left and the next order of the level is
\* what the loop reads next.
C8_Witness ==
    /\ pc = "match"
    /\ r.trades # <<>>
    /\ orders[raw].remaining_qty > 0
    /\ orders[RestingOf(r.trades[Len(r.trades)])].status = "FILLED"
    /\ Resting(books[orders[raw].symbol], orders[raw]) # <<>>

\* The orders of the ORDER_PLACED lines of the event log, in call order.
LoggedOrders == SelectSeq(log, LAMBDA e : e.type = "ORDER_PLACED")

\* C9: monotonic ids.  The ids of the orders assigned by successive
\* place_order calls (the ORDER_PLACED events, in call order) are strictly
\* increasing, each order is stored under its id, and the ids of the trades
\* are strictly increasing in execution order.
C9_MonotonicIds ==
    /\ \A i, j \in 1..Len(LoggedOrders) :
          i < j => LoggedOrders[i].payload.id < LoggedOrders[j].payload.id
    /\ Len(LoggedOrders) = Cardinality(DOMAIN orders)
    /\ \A id \in DOMAIN orders : orders[id].id = id
    /\ \A i, j \in 1..Len(trades) : i < j => trades[i].id < trades[j].id

\* Three orders were placed and two trades executed.
C9_Witness ==
    /\ Len(LoggedOrders) >= 3
    /\ Len(trades) >= 2

\* C10: a place_order whose non-empty idempotency key is already consumed
\* fails with DUPLICATE_IDEMPOTENCY_KEY, increments the reject counter and
\* changes nothing else: ids, event sequence and log, orders, books, trades
\* and the key set stay as they are.
C10_DuplicateKeyRejected ==
    [][\A order \in OrderInputs :
         (/\ order.idempotency_key # ""
          /\ order.idempotency_key \in idempotency_keys
          /\ place_order_begin(order))
         => /\ r'.op = "place_order"
            /\ r'.success = FALSE
            /\ r'.error_code = "DUPLICATE_IDEMPOTENCY_KEY"
            /\ stats' = [stats EXCEPT !.total_rejects = @ + 1]
            /\ UNCHANGED <<orders, books, trades, idempotency_keys,
                           next_order_id, next_trade_id, sequence, log, pc>>
    ]_vars

\* A call was refused as a duplicate of a key that an earlier order consumed.
C10_Witness ==
    /\ Idle
    /\ r.op = "place_order"
    /\ r.error_code = "DUPLICATE_IDEMPOTENCY_KEY"
    /\ stats.total_rejects = 1
    /\ \E id \in DOMAIN orders : orders[id].idempotency_key \in idempotency_keys

\* C11: a place_order that reaches the risk check and fails it returns the
\* risk checker's error code, increments the reject counter and changes
\* nothing else: next order id, event sequence and log, orders, books, trades
\* and the key set are as before the call.
C11_RiskRejectLeavesState ==
    [][\A order \in OrderInputs :
         (/\ ~(order.idempotency_key # "" /\ order.idempotency_key \in idempotency_keys)
          /\ check_order(order) # "NONE"
          /\ place_order_begin(order))
         => /\ r'.op = "place_order"
            /\ r'.success = FALSE
            /\ r'.error_code = check_order(order)
            /\ r'.error_code # "NONE"
            /\ r'.trades = <<>>
            /\ stats' = [stats EXCEPT !.total_rejects = @ + 1]
            /\ UNCHANGED <<orders, books, trades, idempotency_keys,
                           next_order_id, next_trade_id, sequence, log, pc>>
    ]_vars

\* A call was refused by the risk checker while orders rest on both sides of
\* a book, and no idempotency key is consumed.
C11_Witness ==
    /\ Idle
    /\ r.op = "place_order"
    /\ r.error_code = "INVALID_QUANTITY"
    /\ stats.total_rejects = 1
    /\ idempotency_keys = {}
    /\ \E s \in DOMAIN books : books[s].bid_orders # {} /\ books[s].ask_orders # {}

\* The checks as the claim orders them, with the notional in exact
\* arithmetic: price * quantity / 10^8 > max_notional.
FirstFailingCheck(order, limits) ==
    IF ~I64Positive(order.quantity) THEN "INVALID_QUANTITY"
    ELSE IF order.type = "LIMIT" /\ ~I64Positive(order.price) THEN "INVALID_PRICE"
    ELSE IF order.symbol \notin limits.allowed_symbols THEN "INVALID_SYMBOL"
    ELSE IF I64Less(limits.max_order_size, order.quantity)
         THEN "MAX_ORDER_SIZE_EXCEEDED"
    ELSE IF order.type = "LIMIT"
            /\ (limits.max_notional.neg
                \/ BigLess(BigMul(limits.max_notional.mag, Dec(0, 1, 0)),
                           BigMul(order.price.mag, order.quantity.mag)))
         THEN "MAX_NOTIONAL_EXCEEDED"
    ELSE "NONE"

\* C12: for every order and limits, check_order returns the error of the
\* first failing check in the fixed order: quantity <= 0, INVALID_QUANTITY;
\* LIMIT with price <= 0, INVALID_PRICE; symbol not allowed, INVALID_SYMBOL;
\* quantity > max_order_size, MAX_ORDER_SIZE_EXCEEDED; LIMIT with
\* price * quantity / 10^8 > max_notional, MAX_NOTIONAL_EXCEEDED; otherwise
\* NONE.
C12_FirstFailingCheckWins ==
    risk_out # "unset" =>
        risk_out = FirstFailingCheck(risk_in.order, risk_in.limits)

\* The lines of the event log that are about order id: its ORDER_PLACED, its
\* ORDER_CANCELLED and the TRADE_EXECUTED that name it.
EventsOf(lg, id) ==
    SelectSeq(lg, LAMBDA e :
        \/ e.type = "ORDER_PLACED" /\ e.payload.id = id
        \/ e.type = "ORDER_CANCELLED" /\ e.payload.order_id = id
        \/ e.type = "TRADE_EXECUTED"
              /\ (e.payload.buy_order_id = id \/ e.payload.sell_order_id = id))

\* The ids on the books, by price level and by id index.
OnBooks(bks) ==
    UNION {LevelIds(bks[s].bids) \cup LevelIds(bks[s].asks)
             \cup bks[s].bid_orders \cup bks[s].ask_orders : s \in DOMAIN bks}

\* C13: a MARKET order that passed the risk check and executed no trade ends
\* REJECTED and place_order fails with NO_LIQUIDITY; the reject counter is
\* incremented, the order is on no book, and the call logged exactly one
\* event, the order's ORDER_PLACED.
C13_MarketNoLiquidity ==
    [][(/\ pc = "match"
        /\ pc' = "idle"
        /\ orders[raw].type = "MARKET"
        /\ r.trades = <<>>)
       => /\ orders'[raw].status = "REJECTED"
          /\ r'.op = "place_order"
          /\ r'.success = FALSE
          /\ r'.error_code = "NO_LIQUIDITY"
          /\ r'.order = orders'[raw]
          /\ r'.trades = <<>>
          /\ trades' = trades
          /\ stats'.total_rejects = stats.total_rejects + 1
          /\ raw \notin OnBooks(books')
          /\ Len(EventsOf(log', raw)) = 1
          /\ log'[Len(log')].type = "ORDER_PLACED"
          /\ log'[Len(log')].payload.id = raw
    ]_vars

\* A MARKET order was refused for want of liquidity although the opposite
\* side of its book is not empty: the order at the head is its account's own.
C13_Witness ==
    /\ Idle
    /\ r.op = "place_order"
    /\ r.error_code = "NO_LIQUIDITY"
    /\ r.order.type = "MARKET"
    /\ r.order.status = "REJECTED"
    /\ Resting(books[r.order.symbol], r.order) # <<>>

\* C14: in every state that place_order and cancel_order reach, no MARKET
\* order is on a book; a MARKET order that traded and has quantity left ends
\* PARTIAL, the call succeeds and the order is not rested.
C14_MarketNeverRests ==
    /\ [](\A id \in OnBooks(books) : orders[id].type # "MARKET")
    /\ [][(/\ pc = "match"
            /\ pc' = "idle"
            /\ orders[raw].type = "MARKET"
            /\ r.trades # <<>>
            /\ orders[raw].remaining_qty > 0)
           => /\ orders'[raw].status = "PARTIAL"
              /\ orders'[raw].remaining_qty = orders[raw].remaining_qty
              /\ r'.success = TRUE
              /\ r'.order = orders'[raw]
              /\ raw \notin OnBooks(books')
              /\ books' = books]_vars

\* A MARKET order traded, has quantity left and its call is over.
C14_Witness ==
    /\ Idle
    /\ r.op = "place_order"
    /\ r.success
    /\ r.order.type = "MARKET"
    /\ r.order.status = "PARTIAL"
    /\ r.order.remaining_qty > 0
    /\ r.trades # <<>>
    /\ r.order.id \notin OnBooks(books)

\* How often id occurs at the price levels of one side.
Occurrences(levels, id) ==
    Cardinality(UNION {{<<p, i>> : i \in {k \in 1..Len(levels[p]) :
                                             levels[p][k] = id}} :
                       p \in DOMAIN levels})

\* Order id is on the book of its symbol, on its side and at its price, once,
\* and nowhere else.
OnOwnLevel(id) ==
    LET o == orders[id]
        mine == IF o.side = "BUY" THEN "bids" ELSE "asks"
    IN /\ o.symbol \in DOMAIN books
       /\ \A s \in DOMAIN books :
             /\ Occurrences(books[s].bids, id)
                   = (IF s = o.symbol /\ o.side = "BUY" THEN 1 ELSE 0)
             /\ Occurrences(books[s].asks, id)
                   = (IF s = o.symbol /\ o.side = "SELL" THEN 1 ELSE 0)
             /\ (id \in books[s].bid_orders) = (s = o.symbol /\ o.side = "BUY")
             /\ (id \in books[s].ask_orders) = (s = o.symbol /\ o.side = "SELL")
       /\ o.price \in DOMAIN books[o.symbol][mine]
       /\ \E i \in 1..Len(books[o.symbol][mine][o.price]) :
             books[o.symbol][mine][o.price][i] = id

\* C15: book membership.  After every completed place_order or
\* cancel_order, an order is on a book if and only if it is a LIMIT order
\* with status NEW or PARTIAL and remaining > 0, and then it is on the book of
\* its symbol, on its side, at its price; no FILLED, CANCELLED or REJECTED
\* order is on any book, and every book entry is an order of the engine.
C15_BookMembership ==
    Idle =>
        /\ OnBooks(books) \subseteq DOMAIN orders
        /\ \A id \in DOMAIN orders :
              /\ (id \in OnBooks(books))
                    = (/\ orders[id].type = "LIMIT"
                       /\ orders[id].status \in {"NEW", "PARTIAL"}
                       /\ orders[id].remaining_qty > 0)
              /\ id \in OnBooks(books) => OnOwnLevel(id)
              /\ orders[id].status \in {"FILLED", "CANCELLED", "REJECTED"}
                    => id \notin OnBooks(books)

\* After a completed call the engine holds a partly filled LIMIT order on
\* its book, a FILLED order and a CANCELLED order.
C15_Witness ==
    /\ Idle
    /\ \E id \in DOMAIN orders :
          /\ orders[id].status = "PARTIAL"
          /\ orders[id].type = "LIMIT"
          /\ id \in OnBooks(books)
    /\ \E id \in DOMAIN orders : orders[id].status = "FILLED"
    /\ \E id \in DOMAIN orders : orders[id].status = "CANCELLED"

\* C16: cancel_order on an unknown order id, or on an order whose status is
\* FILLED, CANCELLED or REJECTED (a second cancel of the same order
\* included), fails with ORDER_NOT_FOUND and changes nothing: no event is
\* logged, and the cancel counter, the order's status and every book are as
\* before.
C16_CancelRefused ==
    [][\A order_id \in 1..next_order_id :
         (/\ \/ order_id \notin DOMAIN orders
             \/ orders[order_id].status \in {"FILLED", "CANCELLED", "REJECTED"}
          /\ cancel_order(order_id))
         => /\ r'.op = "cancel_order"
            /\ r'.success = FALSE
            /\ r'.error_code = "ORDER_NOT_FOUND"
            /\ UNCHANGED <<orders, books, trades, idempotency_keys, next_order_id,
                           next_trade_id, stats, sequence, log, pc>>
    ]_vars

\* An order was cancelled and a second cancel of it was refused.
C16_Witness ==
    /\ Idle
    /\ r.op = "cancel_order"
    /\ r.success = FALSE
    /\ r.order.id \in DOMAIN orders
    /\ r.order.status = "CANCELLED"
    /\ stats.total_cancels = 1

\* The price levels after are the price levels before without order id: the
\* other orders keep their level and their place in it, and no level is
\* left empty.
LevelsWithout(after, before, id) ==
    /\ DOMAIN after \subseteq DOMAIN before
    /\ \A p \in DOMAIN after : after[p] # <<>>
    /\ \A p \in DOMAIN before :
          SelectSeq(before[p], LAMBDA e : e # id)
              = (IF p \in DOMAIN after THEN after[p] ELSE <<>>)

\* C17: a successful cancel_order of an active order removes the order from
\* its book, sets its status to CANCELLED, logs exactly one ORDER_CANCELLED
\* event that carries its id and increments the cancel counter by one; every
\* other order, the trade list, the id counters and the key set are
\* unchanged, and so is the order's remaining quantity.
C17_CancelEffect ==
    [][\A order_id \in 1..next_order_id :
         (/\ order_id \in DOMAIN orders
          /\ orders[order_id].status \in {"NEW", "PARTIAL"}
          /\ cancel_order(order_id))
         => /\ r'.op = "cancel_order"
            /\ r'.success = TRUE
            /\ r'.order = orders'[order_id]
            /\ DOMAIN orders' = DOMAIN orders
            /\ orders'[order_id].status = "CANCELLED"
            /\ orders'[order_id].remaining_qty = orders[order_id].remaining_qty
            /\ orders'[order_id] = [orders[order_id] EXCEPT !.status = "CANCELLED"]
            /\ \A id \in DOMAIN orders \ {order_id} : orders'[id] = orders[id]
            /\ order_id \notin OnBooks(books')
            /\ DOMAIN books' = DOMAIN books
            /\ \A s \in DOMAIN books :
                  /\ LevelsWithout(books'[s].bids, books[s].bids, order_id)
                  /\ LevelsWithout(books'[s].asks, books[s].asks, order_id)
                  /\ books'[s].bid_orders = books[s].bid_orders \ {order_id}
                  /\ books'[s].ask_orders = books[s].ask_orders \ {order_id}
            /\ Len(log') = Len(log) + 1
            /\ SubSeq(log', 1, Len(log)) = log
            /\ log'[Len(log')].type = "ORDER_CANCELLED"
            /\ log'[Len(log')].payload = [order_id |-> order_id]
            /\ stats' = [stats EXCEPT !.total_cancels = @ + 1]
            /\ UNCHANGED <<trades, idempotency_keys, next_order_id, next_trade_id>>
    ]_vars

\* A partly filled LIMIT order was cancelled while another order rests on a
\* book.
C17_Witness ==
    /\ Idle
    /\ r.op = "cancel_order"
    /\ r.success
    /\ r.order.type = "LIMIT"
    /\ r.order.status = "CANCELLED"
    /\ 0 < r.order.remaining_qty
    /\ r.order.remaining_qty < r.order.quantity
    /\ OnBooks(books) # {}

\* The trades of a trade list that name order id.
TradesNaming(ts, id) ==
    SelectSeq(ts, LAMBDA t : t.buy_order_id = id \/ t.sell_order_id = id)

\* C18: cancel invalidates.  Once cancel_order has succeeded for an order,
\* no trade executed afterwards names that order as buy order or sell order,
\* whatever orders are placed later: no step adds a trade that names a
\* CANCELLED order or takes the status back, and no TRADE_EXECUTED event
\* follows the order's ORDER_CANCELLED event in the log.
C18_CancelInvalidates ==
    /\ [][\A id \in DOMAIN orders :
            orders[id].status = "CANCELLED"
            => /\ orders'[id].status = "CANCELLED"
               /\ TradesNaming(trades', id) = TradesNaming(trades, id)]_vars
    /\ [](\A k \in 1..Len(log) :
            log[k].type = "ORDER_CANCELLED"
            => \A m \in (k + 1)..Len(log) :
                  log[m].type = "TRADE_EXECUTED"
                  => /\ log[m].payload.buy_order_id # log[k].payload.order_id
                     /\ log[m].payload.sell_order_id # log[k].payload.order_id)

\* An order was cancelled, and afterwards an order of the other side that
\* the cancelled order's price would have matched traded with someone else.
C18_Witness ==
    \E k \in 1..Len(log) :
        /\ log[k].type = "ORDER_CANCELLED"
        /\ \E m \in (k + 1)..Len(log) :
              /\ log[m].type = "TRADE_EXECUTED"
              /\ LET c == orders[log[k].payload.order_id]
                     t == log[m].payload
                 IN /\ c.symbol = t.symbol
                    /\ c.type = "LIMIT"
                    /\ c.price = t.price
                    /\ c.side = orders[RestingOf(t)].side

\* ------------------------------------------------------------------------
\* C19: an engine started on the log file of another, with no snapshot, has
\* after recover() the orders (ids, statuses, remaining quantities), the
\* trades, the next order id, the next trade id and the books that the other
\* engine had.
\* ------------------------------------------------------------------------
C19_ReplayDeterminism ==
    r.op = "recover" =>
        /\ orders = prior.orders
        /\ trades = prior.trades
        /\ next_order_id = prior.next_order_id
        /\ next_trade_id = prior.next_trade_id
        /\ books = prior.books

\* ------------------------------------------------------------------------
\* C20: the first event of a log file has sequence number 1 and every event
\* has a sequence number greater than that of every event appended to the
\* file before it, also after an engine was started again on the file, has
\* recovered and has processed further commands.
\* ------------------------------------------------------------------------
C20_SequenceIncreasing ==
    \A i \in 1..Len(log) :
        /\ i = 1 => log[i].sequence = 1
        /\ \A j \in 1..(i - 1) : log[j].sequence < log[i].sequence

\* The price level of a side of a book, empty where the book has none.
LevelAt(levels, price) ==
    IF price \in DOMAIN levels THEN levels[price] ELSE <<>>

\* The levels of the side of the book an order belongs to.
OwnSide(book, o) == IF o.side = "BUY" THEN book.bids ELSE book.asks

\* The would-cross condition: BUY price >= best ask, SELL price <= best bid.
Crosses(book, o) ==
    IF o.side = "BUY"
    THEN \E p \in DOMAIN book.asks : o.price >= p
    ELSE \E p \in DOMAIN book.bids : o.price <= p

\* ------------------------------------------------------------------------
\* C26: when place_order succeeds the returned order is FILLED exactly when
\* its remaining quantity is 0; a LIMIT order with quantity left that does not
\* cross the book is appended to the tail of its price level, and is returned
\* PARTIAL when the call made at least one trade and NEW when it made none.
\* ------------------------------------------------------------------------
C26_PostMatchStatus ==
    [][(pc = "match" /\ pc' = "idle") =>
          LET o == orders[raw]
              book == books[o.symbol]
          IN /\ r'.success =>
                   (r'.order.status = "FILLED" <=> r'.order.remaining_qty = 0)
             /\ (o.type = "LIMIT" /\ o.remaining_qty > 0 /\ ~Crosses(book, o)) =>
                   /\ r'.success
                   /\ r'.order.id = raw
                   /\ r'.order = orders'[raw]
                   /\ LevelAt(OwnSide(books'[o.symbol], o), o.price)
                         = Append(LevelAt(OwnSide(book, o), o.price), raw)
                   /\ r'.order.status =
                         IF r'.trades # <<>> THEN "PARTIAL" ELSE "NEW"]_vars

\* A LIMIT order traded and what is left of it rests PARTIAL on the book.
C26_Witness ==
    /\ Idle
    /\ r.op = "place_order"
    /\ r.success
    /\ r.order.type = "LIMIT"
    /\ r.order.status = "PARTIAL"
    /\ r.trades # <<>>
    /\ r.order.remaining_qty > 0
    /\ r.order.id \in LevelIds(OwnSide(books[r.order.symbol], r.order))

\* ------------------------------------------------------------------------
\* C27: when a LIMIT order has quantity left after the matching loop and
\* would cross the book, the loop was stopped by self-trade prevention: the
\* head of the best opposite level belongs to the incoming order's account.
\* The order is then REJECTED, place_order fails with SELF_TRADE_PREVENTED
\* and the order is not added to the book.
\* ------------------------------------------------------------------------
C27_CrossOnlyBySelfTrade ==
    [][(pc = "match" /\ pc' = "idle") =>
          LET o == orders[raw]
              book == books[o.symbol]
              resting == Resting(book, o)
          IN (o.type = "LIMIT" /\ o.remaining_qty > 0 /\ Crosses(book, o)) =>
                /\ resting # <<>>
                /\ orders[Head(resting)].account_id = o.account_id
                /\ orders'[raw].status = "REJECTED"
                /\ ~r'.success
                /\ r'.error_code = "SELF_TRADE_PREVENTED"
                /\ r'.order = orders'[raw]
                /\ books' = books
                /\ raw \notin OnBooks(books')]_vars

\* A LIMIT order traded with another account, met an order of its own
\* account at the head of the best level and was rejected.
C27_Witness ==
    /\ Idle
    /\ r.op = "place_order"
    /\ r.error_code = "SELF_TRADE_PREVENTED"
    /\ r.trades # <<>>
    /\ r.order.type = "LIMIT"
    /\ r.order.status = "REJECTED"
    /\ r.order.remaining_qty > 0
    /\ Crosses(books[r.order.symbol], r.order)

\* The position in the log of the last ORDER_PLACED event, 0 if there is none.
LastPlaced(lg) ==
    SetMax({0} \cup {k \in 1..Len(lg) : lg[k].type = "ORDER_PLACED"})

\* The events a place_order call has logged so far, for the call that is
\* inside match() or was the last call to return: its ORDER_PLACED event
\* first, then one TRADE_EXECUTED event for each trade it returns, in the
\* order of the trades, with consecutive sequence numbers.
CallEventsInOrder ==
    (pc = "match" \/ (r.op = "place_order" /\ raw # 0 /\ r.order.id = raw)) =>
        LET k == LastPlaced(log)
        IN /\ k > 0
           /\ log[k].payload.id = raw
           /\ Len(log) = k + Len(r.trades)
           /\ \A i \in 1..Len(r.trades) :
                 /\ log[k + i].type = "TRADE_EXECUTED"
                 /\ log[k + i].payload = r.trades[i]
                 /\ log[k + i].sequence = log[k].sequence + i

\* Every TRADE_EXECUTED event of the log comes after an ORDER_PLACED event of
\* its buy order and one of its sell order.
TradesAfterTheirOrders ==
    \A k \in 1..Len(log) :
        log[k].type = "TRADE_EXECUTED" =>
            /\ \E i \in 1..(k - 1) :
                  /\ log[i].type = "ORDER_PLACED"
                  /\ log[i].payload.id = log[k].payload.buy_order_id
            /\ \E j \in 1..(k - 1) :
                  /\ log[j].type = "ORDER_PLACED"
                  /\ log[j].payload.id = log[k].payload.sell_order_id

\* ------------------------------------------------------------------------
\* C28: the events of one place_order call are logged in the order they are
\* produced, with consecutive increasing sequence numbers: ORDER_PLACED
\* first, then one TRADE_EXECUTED per trade in the order of the returned
\* trades; and every TRADE_EXECUTED event of the log is preceded by the
\* ORDER_PLACED events of its buy order and of its sell order.
\* ------------------------------------------------------------------------
C28_EventOrder ==
    /\ CallEventsInOrder
    /\ TradesAfterTheirOrders

\* ------------------------------------------------------------------------
\* C21: an order that the engine rejected after it logged ORDER_PLACED
\* (NO_LIQUIDITY, SELF_TRADE_PREVENTED) is, after recovery from the event
\* log, in the orders map with status REJECTED and on no book.
\* ------------------------------------------------------------------------
C21_RejectedMaterialized ==
    r.op = "recover" =>
        \A id \in DOMAIN prior.orders :
            prior.orders[id].status = "REJECTED" =>
                /\ id \in DOMAIN orders
                /\ orders[id].status = "REJECTED"
                /\ id \notin OnBooks(books)

\* The order records the ORDER_PLACED events of a log carry.
RecordedOrders(lg) ==
    {lg[k].payload : k \in {i \in 1..Len(lg) : lg[i].type = "ORDER_PLACED"}}

\* The order replay installs for an ORDER_PLACED event in an engine that
\* does not hold it.
Installed(j) ==
    LET m == replay_order_placed(Memory(<<>>, <<>>, <<>>, {}, 1, 1), j)
    IN IF j.id \in DOMAIN m.orders THEN m.orders[j.id] ELSE DefaultOrder

\* ------------------------------------------------------------------------
\* C29: an order written into an ORDER_PLACED event and read back by replay
\* is installed with the id, the status and the remaining quantity that
\* were recorded, so that after recovery every logged order is in the
\* orders map under its own id and distinct logged orders are installed
\* under distinct ids.
\* ------------------------------------------------------------------------
C29_OrderRoundTrip ==
    r.op = "recover" =>
        /\ \A j \in RecordedOrders(log) :
              /\ Installed(j).id = j.id
              /\ Installed(j).status = j.status
              /\ Installed(j).remaining_qty = j.remaining_qty
              /\ j.id \in DOMAIN orders
              /\ orders[j.id].id = j.id
        /\ Cardinality(DOMAIN orders) = Cardinality(RecordedOrders(log))

\* ------------------------------------------------------------------------
\* C30: replay is idempotent with respect to the final state.  When
\* recover() is called on an engine whose last call was recover() on the same
\* log, the orders map with its remaining quantities, the trade list, the
\* books and the id counters stay as the first call left them.
\* ------------------------------------------------------------------------
C30_ReplayIdempotent ==
    [][(r.op = "recover" /\ recovers' = recovers + 1 /\ restarts' = restarts) =>
          /\ orders' = orders
          /\ trades' = trades
          /\ books' = books
          /\ next_order_id' = next_order_id
          /\ next_trade_id' = next_trade_id]_vars

\* load_latest found a snapshot: the directory holds a snapshot file with a
\* sequence above 0 (a file snapshot_0.json is never selected).
SnapshotFound == \E q \in DOMAIN snapshots : q > 0

ActiveOrders(ords) == [id \in ActiveIds(ords) |-> ords[id]]

\* ------------------------------------------------------------------------
\* C25: an engine that recovers from a snapshot taken at sequence s and
\* replays the events with a sequence above s has the active orders (ids,
\* statuses, remaining quantities), the books, the next order id and the
\* next trade id that the engine had when the last event was written.
\* ------------------------------------------------------------------------
C25_SnapshotRecovery ==
    [][(restarts' = restarts + 1 /\ SnapshotFound) =>
          /\ ActiveOrders(orders') = ActiveOrders(orders)
          /\ books' = books
          /\ next_order_id' = next_order_id
          /\ next_trade_id' = next_trade_id]_vars


\* The requests of the protocol: an object whose cmd is a string, whose
\* req_id, where present, is a string, and whose arguments are present and of
\* the type the command reads them with.
WellFormed(l) ==
    /\ l.form = "object"
    /\ l.cmd.kind = "string"
    /\ l.req_id.kind \in {"absent", "string"}
    /\ l.cmd.s = "place_order" =>
         /\ l.order.kind = "object"
         /\ l.order.account_id.kind = "string"
         /\ l.order.symbol.kind = "string"
         /\ l.order.side.kind = "string" /\ l.order.side.s \in {"BUY", "SELL"}
         /\ l.order.type.kind = "string" /\ l.order.type.s \in {"LIMIT", "MARKET"}
         /\ l.order.price.kind \in {"absent", "number"}
         /\ l.order.quantity.kind = "number"
    /\ l.cmd.s \in {"cancel_order", "get_order"} => l.order_id.kind = "number"

RecognisedCommands == {"place_order", "cancel_order", "get_order", "health"}

\* The code a line that is no request of the protocol is answered with; an
\* object without cmd may be answered with either.
RejectionCodes(l) ==
    IF ~WellFormed(l)
    THEN IF l.form = "object" /\ l.cmd.kind = "absent"
         THEN {"PARSE_ERROR", "UNKNOWN_COMMAND"}
         ELSE {"PARSE_ERROR"}
    ELSE IF l.cmd.s \notin RecognisedCommands THEN {"UNKNOWN_COMMAND"}
    ELSE {}

\* C23: while a line that is no valid request, or whose cmd is not
\* recognised, is being handled, no step changes the engine state or the
\* event log, and the one response written for it has success = false and
\* the code PARSE_ERROR, respectively UNKNOWN_COMMAND.
C23_MalformedRejected ==
    [][(line # NoLine /\ RejectionCodes(line) # {}) =>
         /\ <<orders, books, trades, idempotency_keys, next_order_id,
              next_trade_id, stats, sequence, log>>' =
            <<orders, books, trades, idempotency_keys, next_order_id,
              next_trade_id, stats, sequence, log>>
         /\ cout' # cout =>
              /\ Len(cout') = Len(cout) + 1
              /\ ~cout'[Len(cout')].response.success
              /\ cout'[Len(cout')].response.code \in RejectionCodes(line)]_vars

\* C24: events are appended only while a line is being handled, and then
\* neither the line changes nor a response is written; a response is written
\* only when the call of the engine has returned, it is the response of the
\* line being handled, and it is appended after the responses of the lines
\* before it.
C24_LinesInOrder ==
    [][/\ log' # log => line # NoLine /\ line' = line /\ cout' = cout
       /\ cout' # cout =>
            /\ line # NoLine /\ line' = NoLine
            /\ pc = "idle" /\ log' = log
            /\ cout' = Append(cout, [request |-> Len(cout) + 1,
                                     events |-> Len(log),
                                     response |-> Response(line, r, orders)])
       /\ (line # NoLine /\ line' # line) => cout' # cout]_vars

\* Two lines were answered and the command of the second logged several
\* events before its response.
C24_Witness ==
    /\ Len(cout) >= 2
    /\ cout[2].events >= cout[1].events + 2
    /\ cout[2].response.success

\* ------------------------------------------------------------------------
\* C31: after recover(), next_order_id is greater than the id of every
\* order recorded in the log and next_trade_id is greater than the id of
\* every trade recorded in the log.
\* ------------------------------------------------------------------------
C31_CountersPastLog ==
    r.op = "recover" =>
        /\ \A k \in 1..Len(log) :
               log[k].type = "ORDER_PLACED" => next_order_id > log[k].payload.id
        /\ \A k \in 1..Len(log) :
               log[k].type = "TRADE_EXECUTED" => next_trade_id > log[k].payload.id

\* ------------------------------------------------------------------------
\* C32: the snapshot create_snapshot returns has the sequence of the event
\* log, the next order id and the next trade id of the engine, and as its
\* orders exactly the orders of the orders map with status NEW or PARTIAL,
\* each once; taking it changes nothing in the engine.
\* ------------------------------------------------------------------------
C32_CreateSnapshot ==
    [][snapshots' # snapshots =>
          /\ sequence \in DOMAIN snapshots'
          /\ LET s == snapshots'[sequence]
             IN /\ s.sequence = sequence
                /\ s.next_order_id = next_order_id
                /\ s.next_trade_id = next_trade_id
                /\ {s.orders[k] : k \in 1..Len(s.orders)} =
                   {orders[id] : id \in {i \in DOMAIN orders :
                                    orders[i].status \in {"NEW", "PARTIAL"}}}
                /\ \A i, j \in 1..Len(s.orders) :
                       s.orders[i] = s.orders[j] => i = j
          /\ UNCHANGED engine_vars]_vars

\* A snapshot of two active orders was taken of an engine that also holds an
\* order that is not active.
C32_Witness ==
    \E q \in DOMAIN snapshots :
        /\ Len(snapshots[q].orders) = 2
        /\ q = sequence
        /\ \E id \in DOMAIN orders : orders[id].status \in {"FILLED", "CANCELLED", "REJECTED"}
        /\ restarts = 0

\* The trades of a symbol in a trade list, oldest first.
OfSymbol(ts, symbol) == SelectSeq(ts, LAMBDA t : t.symbol = symbol)

\* The last n elements of a sequence.
LastN(s, n) == SubSeq(s, Len(s) - n + 1, Len(s))

\* ------------------------------------------------------------------------
\* C33: get_trades(symbol, limit) returns the min(limit, n) most recent of
\* the n trades of the symbol, oldest first; trades of other symbols are
\* neither returned nor counted, and limit 0 gives the empty list.
\* ------------------------------------------------------------------------
C33_RecentTrades ==
    answer # <<>> =>
        LET mine == OfSymbol(query.trades, query.symbol)
        IN /\ answer[1] = LastN(mine, Min2(query.limit, Len(mine)))
           /\ query.limit = 0 => answer[1] = <<>>

\* The limit cut the trades of the symbol short, and a trade of another
\* symbol lies between the trades returned.
C33_Witness ==
    /\ answer # <<>>
    /\ Len(answer[1]) = 2
    /\ query.limit = 2
    /\ Len(OfSymbol(query.trades, query.symbol)) = 3
    /\ answer[1][2].id > answer[1][1].id + 1

\* The sum of the remaining quantities of a set of orders.
RECURSIVE RemainingOf(_)
RemainingOf(ids) ==
    IF ids = {}
    THEN 0
    ELSE LET id == CHOOSE x \in ids : TRUE
         IN orders[id].remaining_qty + RemainingOf(ids \ {id})

\* The levels returned for one side are the best min(depth, n) of its n
\* price levels, best first, each with the quantity and the number of the
\* orders resting at its price.
LevelsOfSide(returned, side_levels, index, side, better(_, _)) ==
    /\ Len(returned) = Min2(query.depth, Cardinality(DOMAIN side_levels))
    /\ \A k \in 1..Len(returned) :
          LET lvl == returned[k]
              at == {id \in index : orders[id].side = side /\ orders[id].price = lvl.price}
          IN /\ lvl.price \in DOMAIN side_levels
             /\ Cardinality({p \in DOMAIN side_levels : better(p, lvl.price)}) = k - 1
             /\ lvl.order_count = Cardinality(at)
             /\ lvl.order_count >= 1
             /\ lvl.quantity = RemainingOf(at)
             /\ lvl.quantity >= 1

\* ------------------------------------------------------------------------
\* C34: the levels returned for a side of a book are its min(depth, number
\* of price levels) best levels, bids from the highest price down and asks
\* from the lowest price up, each with the sum of the remaining quantities
\* of the orders at that price and their number, and none of them empty.
\* ------------------------------------------------------------------------
C34_Levels ==
    query.op = "get_book" =>
        /\ LevelsOfSide(answer[1].bids, books[query.symbol].bids,
                        books[query.symbol].bid_orders, "BUY", LAMBDA p, q : p > q)
        /\ LevelsOfSide(answer[1].asks, books[query.symbol].asks,
                        books[query.symbol].ask_orders, "SELL", LAMBDA p, q : p < q)

\* The depth cut off the lower of two bid levels, and the level returned
\* holds two orders.
C34_Witness ==
    /\ query.op = "get_book"
    /\ query.depth = 1
    /\ Cardinality(DOMAIN books[query.symbol].bids) = 2
    /\ Len(answer[1].bids) = 1
    /\ answer[1].bids[1].order_count = 2
    /\ answer[1].bids[1].quantity = 3

\* The events whose text is in the file.
Written == {<<file_[k].thread, file_[k].event>> : k \in 1..Len(file_)}

\* ------------------------------------------------------------------------
\* C35: when two threads call append concurrently the appends are
\* serialized by the lock: the file is a sequence of complete lines, each
\* the text of one event followed by its end of line, no event is written
\* twice, and every append that returned on an open log left its line.
\* ------------------------------------------------------------------------
C35_AppendSerialized ==
    /\ Len(file_) % 2 = 0
    /\ \A k \in 1..Len(file_) :
          k % 2 = 1 =>
             /\ file_[k].part = "dump"
             /\ file_[k + 1].part = "newline"
             /\ file_[k + 1].thread = file_[k].thread
             /\ file_[k + 1].event = file_[k].event
    /\ \A j, k \in 1..Len(file_) : file_[j] = file_[k] => j = k
    /\ enabled_ =>
          \A t \in Threads : \A e \in 1..thread[t].calls : <<t, e>> \in Written

\* One thread waits for the mutex while the other, between two lines of the
\* first, has written the text of its event and not yet the end of the line.
C35_Witness ==
    \E t, u \in Threads :
        /\ thread[t].pc = "lock"
        /\ thread[u].pc = "newline"
        /\ mutex_ = u
        /\ thread[t].calls = 1
        /\ <<t, 1>> \in Written

\* The log holds an event of the type whose payload names the id under the key.
EventLogged(type, HasId(_)) ==
    \E k \in 1..Len(log) : log[k].type = type /\ HasId(log[k].payload)

\* ------------------------------------------------------------------------
\* C36: state changes are logged before they are executed: when a statement
\* stores a new order in the orders map, pushes a trade to the trade list,
\* marks an order CANCELLED or takes it from its book, or reduces a
\* remaining quantity for a trade, the ORDER_PLACED, TRADE_EXECUTED or
\* ORDER_CANCELLED event of that change is already in the event log.
\* ------------------------------------------------------------------------
C36_LoggedBeforeExecution ==
    [][/\ \A id \in DOMAIN orders' \ DOMAIN orders :
             EventLogged("ORDER_PLACED", LAMBDA p : p.id = id)
       /\ Len(trades') > Len(trades) =>
             EventLogged("TRADE_EXECUTED", LAMBDA p : p.id = trades'[Len(trades')].id)
       /\ \A id \in DOMAIN orders :
             /\ (orders'[id].status = "CANCELLED" /\ orders[id].status # "CANCELLED") =>
                   EventLogged("ORDER_CANCELLED", LAMBDA p : p.order_id = id)
             /\ orders'[id].remaining_qty < orders[id].remaining_qty =>
                   \E t \in 1..Len(trades) :
                      /\ id \in {trades[t].buy_order_id, trades[t].sell_order_id}
                      /\ EventLogged("TRADE_EXECUTED", LAMBDA p : p.id = trades[t].id)
                      /\ trades[t].id = next_trade_id - 1]_vars

\* ------------------------------------------------------------------------
\* C37: a place_order that returned success = false executed no trade: the
\* call's result carries no trade and no trade of the trade list names the
\* order of the call.
\* ------------------------------------------------------------------------
C37_FailedCallNoTrade ==
    (pc = "idle" /\ r.op = "place_order" /\ ~r.success) =>
        /\ r.trades = <<>>
        /\ \A k \in 1..Len(trades) :
              r.order.id # 0 =>
                 r.order.id \notin {trades[k].buy_order_id, trades[k].sell_order_id}

\* The keys carried by the orders that were assigned an id.
KeysOfOrders == {orders[id].idempotency_key : id \in DOMAIN orders} \ {""}

StatusTransitions ==
    {<<"NEW", "PARTIAL">>, <<"NEW", "FILLED">>, <<"PARTIAL", "FILLED">>,
     <<"NEW", "CANCELLED">>, <<"PARTIAL", "CANCELLED">>,
     <<"NEW", "REJECTED">>, <<"PARTIAL", "REJECTED">>}

\* ------------------------------------------------------------------------
\* C39: an order whose status is FILLED, CANCELLED or REJECTED keeps its
\* status and its remaining quantity in every later step of place_order and
\* cancel_order; a status changes only from NEW to PARTIAL, from NEW or
\* PARTIAL to FILLED, CANCELLED or REJECTED, and to REJECTED only at the end
\* of the order's own place_order call; a new order starts as NEW.
\* ------------------------------------------------------------------------
C39_TerminalAbsorbing ==
    [][/\ \A id \in DOMAIN orders :
             /\ id \in DOMAIN orders'
             /\ orders[id].status \in {"FILLED", "CANCELLED", "REJECTED"} =>
                   /\ orders'[id].status = orders[id].status
                   /\ orders'[id].remaining_qty = orders[id].remaining_qty
             /\ orders'[id].status # orders[id].status =>
                   /\ <<orders[id].status, orders'[id].status>> \in StatusTransitions
                   /\ orders'[id].status = "REJECTED" =>
                         /\ pc = "match"
                         /\ raw = id
                         /\ r.op = "place_order"
       /\ \A id \in DOMAIN orders' \ DOMAIN orders : orders'[id].status = "NEW"]_vars

\* A cancel of a FILLED order was refused after a later order had traded
\* against the book and another had been rejected.
C39_Witness ==
    /\ Idle
    /\ r.op = "cancel_order"
    /\ ~r.success
    /\ r.order.status = "FILLED"
    /\ \E id \in DOMAIN orders : orders[id].status = "REJECTED"
    /\ Len(trades) >= 1

\* Every entry of the price levels of one side of a book refers to an order
\* the orders map holds under that id, once, and the id index of the side
\* holds exactly these ids.
SideIntact(levels, index) ==
    /\ \A id \in LevelIds(levels) :
          /\ id \in DOMAIN orders
          /\ orders[id].id = id
          /\ Occurrences(levels, id) = 1
    /\ index = LevelIds(levels)

\* ------------------------------------------------------------------------
\* C40: in every state between two commands, the state after recover() from
\* a snapshot or an event log included, every entry of every book refers to
\* an order that the orders map holds under the same id, and every order id
\* occurs at most once at the price levels of a book and exactly once in
\* its id index.
\* ------------------------------------------------------------------------
C40_BackReferences ==
    Idle =>
        \A sym \in DOMAIN books :
            /\ SideIntact(books[sym].bids, books[sym].bid_orders)
            /\ SideIntact(books[sym].asks, books[sym].ask_orders)
            /\ books[sym].bid_orders \cap books[sym].ask_orders = {}

====
